---- MODULE Spec2Model ----
(***************************************************************************)
(* Model of DocumentProcessorOnline (src/document_processor_online.py):    *)
(* text cleaning, chunking, TF-IDF indexing, cosine ranking and the corpus *)
(* store with its export / import / clear lifecycle.                       *)
(*                                                                         *)
(* Text representation.  A text is a sequence of atoms.  An atom is either *)
(* a maximal run of word characters (\w+), written as a TLA+ string such   *)
(* as "gato", or one single non-word character: a whitespace character, a  *)
(* punctuation character of the clean_text whitelist, or another (special) *)
(* character.  Two word atoms are never adjacent in a text (they would be  *)
(* one run).  The character length of a text is the sum of the lengths of  *)
(* its atoms.                                                              *)
(*                                                                         *)
(* Numbers.  math.log(n / df) is tabulated in tenths (LnTab); a weight     *)
(* tf * idf is the exact fraction [num, den]; a cosine similarity, which   *)
(* is never negative here, is represented by its square as an exact        *)
(* reduced fraction, which preserves zero tests, equality and order.       *)
(***************************************************************************)
EXTENDS Integers, Sequences, FiniteSets, TLC

VARIABLES sp, self, heap, snap, ret, hashseed, wr, rd, document_processor, instances, gdp

vars == <<sp, self, heap, snap, ret, hashseed, wr, rd, document_processor, instances, gdp>>

(***************************************************************************)
(* Atoms                                                                   *)
(***************************************************************************)
SP == " "
NL == "\n"
TAB == "\t"

\* \s of the regular expressions and of str.split / str.strip
Whitespace == {SP, NL, TAB}

\* the punctuation the character class of clean_text keeps: - . , ; : ! ? ( )
KeptPunct == {"-", ".", ",", ";", ":", "!", "?", "(", ")"}

\* characters outside the character class of clean_text that occur in the model
SpecialChars == {"@", "#", "*"}

IsSpace(a) == a \in Whitespace

IsWordAtom(a) == a \notin Whitespace /\ a \notin KeptPunct /\ a \notin SpecialChars

\* len() of one atom: a word run has the length of its string, any other atom is one character
AtomLen(a) == IF IsWordAtom(a) THEN Len(a) ELSE 1

\* str.lower() on a word run
LowerAtom(a) ==
  CASE a = "O" -> "o"
    [] a = "Gato" -> "gato"
    [] a = "De" -> "de"
    [] a = "PDF" -> "pdf"
    [] OTHER -> a

(***************************************************************************)
(* Sequence helpers.  Folds split their range in halves so that the depth  *)
(* of the evaluation stays logarithmic in the length of the text.          *)
(***************************************************************************)
Indices(s) == [i \in 1..Len(s) |-> i]

RECURSIVE CharLenR(_, _, _)
CharLenR(t, lo, hi) ==
  IF lo > hi THEN 0
  ELSE IF lo = hi THEN AtomLen(t[lo])
  ELSE LET mid == (lo + hi) \div 2
       IN CharLenR(t, lo, mid) + CharLenR(t, mid + 1, hi)

\* len(text)
CharLen(t) == CharLenR(t, 1, Len(t))

RECURSIVE JoinR(_, _, _, _)
JoinR(parts, sep, lo, hi) ==
  IF lo > hi THEN << >>
  ELSE IF lo = hi THEN parts[lo]
  ELSE LET mid == (lo + hi) \div 2
       IN JoinR(parts, sep, lo, mid) \o sep \o JoinR(parts, sep, mid + 1, hi)

\* sep.join(parts)
Join(parts, sep) == JoinR(parts, sep, 1, Len(parts))

\* str.strip(): drop leading and trailing whitespace
Strip(t) ==
  IF \A i \in 1..Len(t) : IsSpace(t[i]) THEN << >>
  ELSE LET first == CHOOSE i \in 1..Len(t) :
                      ~IsSpace(t[i]) /\ \A j \in 1..(i - 1) : IsSpace(t[j])
           last == CHOOSE i \in 1..Len(t) :
                      ~IsSpace(t[i]) /\ \A j \in (i + 1)..Len(t) : IsSpace(t[j])
       IN SubSeq(t, first, last)

\* str.split(sep) for a one-character separator: the pieces between the separators
SplitOn(t, sep) ==
  LET IsSep(i) == t[i] = sep
      seps == SelectSeq(Indices(t), IsSep)
      n == Len(seps)
  IN [k \in 1..(n + 1) |->
        SubSeq(t, IF k = 1 THEN 1 ELSE seps[k - 1] + 1,
                  IF k = n + 1 THEN Len(t) ELSE seps[k] - 1)]

\* str.split(): the maximal runs of non-whitespace characters
Words(t) ==
  LET IsStart(i) == ~IsSpace(t[i]) /\ (i = 1 \/ IsSpace(t[i - 1]))
      starts == SelectSeq(Indices(t), IsStart)
      EndOf(i) == CHOOSE j \in i..Len(t) :
                    /\ \A k \in i..j : ~IsSpace(t[k])
                    /\ (j = Len(t) \/ IsSpace(t[j + 1]))
  IN [k \in 1..Len(starts) |-> SubSeq(t, starts[k], EndOf(starts[k]))]

\* words[start:end] for 0 <= start, 0 <= end
Slice(s, start, end) == SubSeq(s, start + 1, IF end < Len(s) THEN end ELSE Len(s))

Min(a, b) == IF a <= b THEN a ELSE b

(***************************************************************************)
(* clean_text                                                              *)
(***************************************************************************)
\* re.sub(r'[^\w\s\-\.\,\;\:\!\?\(\)]', ' ', text)
SubSpecial(t) == [i \in 1..Len(t) |-> IF t[i] \in SpecialChars THEN SP ELSE t[i]]

\* re.sub(r'\s+', ' ', text)
CollapseSpace(t) ==
  LET Keep(i) == ~IsSpace(t[i]) \/ i = 1 \/ ~IsSpace(t[i - 1])
      kept == SelectSeq(Indices(t), Keep)
  IN [k \in 1..Len(kept) |-> IF IsSpace(t[kept[k]]) THEN SP ELSE t[kept[k]]]

MinLineLen == 10

clean_text(text) ==
  LET t2 == CollapseSpace(SubSpecial(text))
      lines == SplitOn(t2, NL)
      stripped == [k \in 1..Len(lines) |-> Strip(lines[k])]
      LongEnough(l) == CharLen(l) > MinLineLen
      cleaned_lines == SelectSeq(stripped, LongEnough)
  IN Strip(Join(cleaned_lines, <<NL>>))

(***************************************************************************)
(* split_into_chunks, one loop iteration per step                          *)
(***************************************************************************)
DefaultChunkSize == 500
DefaultOverlap == 50
MinChunkLen == 50

\* the most chunks the list can hold before list.append raises MemoryError
MaxEmit == 4

\* lines 149-155 with the single chunk stripped and filtered as the windows of the loop are
SplitBegin_filtered(text, chunk_size, overlap) ==
  LET words == Words(text)
  IN IF Len(words) <= chunk_size
     THEN [pc |-> "done", text |-> text, chunk_size |-> chunk_size, overlap |-> overlap,
           start |-> 0, end |-> 0,
           chunks |-> IF CharLen(Strip(text)) > MinChunkLen THEN <<Strip(text)>> ELSE << >>,
           raised |-> "none"]
     ELSE [pc |-> "while", text |-> text, chunk_size |-> chunk_size, overlap |-> overlap,
           start |-> 0, end |-> 0, chunks |-> << >>, raised |-> "none"]

\* lines 149-155: split into words, the single-chunk return, start = 0
SplitBegin(text, chunk_size, overlap) ==
  LET words == Words(text)
  IN IF Len(words) <= chunk_size
     THEN [pc |-> "done", text |-> text, chunk_size |-> chunk_size, overlap |-> overlap,
           start |-> 0, end |-> 0, chunks |-> <<text>>, raised |-> "none"]
     ELSE [pc |-> "while", text |-> text, chunk_size |-> chunk_size, overlap |-> overlap,
           start |-> 0, end |-> 0, chunks |-> << >>, raised |-> "none"]

\* lines 156-167: the loop test and one pass through the loop body
SplitStep(s) ==
  LET words == Words(s.text)
      end == Min(s.start + s.chunk_size, Len(words))
      chunk == Strip(Join(Slice(words, s.start, end), <<SP>>))
      emit == CharLen(chunk) > MinChunkLen
      start2 == end - s.overlap
  IN IF ~(s.start < Len(words))
     THEN [s EXCEPT !.pc = "done"]
     ELSE IF emit /\ Len(s.chunks) >= MaxEmit
     THEN [s EXCEPT !.pc = "done", !.end = end, !.raised = "MemoryError"]
     ELSE [s EXCEPT !.pc = IF start2 >= Len(words) THEN "done" ELSE "while",
                    !.end = end,
                    !.chunks = IF emit THEN Append(s.chunks, chunk) ELSE s.chunks,
                    !.start = start2]

(***************************************************************************)
(* Exact fractions                                                         *)
(***************************************************************************)
RECURSIVE Gcd(_, _)
Gcd(a, b) == IF b = 0 THEN a ELSE Gcd(b, a % b)

\* the reduced fraction n / d, for n >= 0 and d > 0
Frac(n, d) == LET g == Gcd(n, d) IN [num |-> n \div g, den |-> d \div g]

Zero == [num |-> 0, den |-> 1]

FMul(x, y) == Frac(x.num * y.num, x.den * y.den)

\* x < y for fractions, by comparing integer parts and then the reciprocals of the remainders
RECURSIVE LessR(_, _, _, _)
LessR(a, b, c, d) ==
  LET qa == a \div b
      qc == c \div d
      ra == a % b
      rc == c % d
  IN IF qa # qc THEN qa < qc
     ELSE IF rc = 0 THEN FALSE
     ELSE IF ra = 0 THEN TRUE
     ELSE LessR(d, rc, b, ra)

FLess(x, y) == LessR(x.num, x.den, y.num, y.den)

\* math.log of the integers 1..12, in tenths
LnTab == <<0, 7, 11, 14, 16, 18, 19, 21, 22, 23, 24, 25>>

\* math.log(n / df)
Ln(n, df) == Frac(LnTab[n] - LnTab[df], 10)

\* sum of f[k] over the keys K of a dict of integers
RECURSIVE SumOver(_, _)
SumOver(f, K) ==
  IF K = {} THEN 0
  ELSE LET k == CHOOSE x \in K : TRUE IN f[k] + SumOver(f, K \ {k})

RECURSIVE LcmOver(_, _)
LcmOver(f, K) ==
  IF K = {} THEN 1
  ELSE LET k == CHOOSE x \in K : TRUE
           r == LcmOver(f, K \ {k})
       IN (f[k].den * r) \div Gcd(f[k].den, r)

(***************************************************************************)
(* tokenize                                                                *)
(***************************************************************************)
\* the entries of self.stop_words that are written in ASCII (no atom of the model has an accent)
stop_words ==
  {"a", "ao", "aos", "as", "ante", "com", "contra", "de", "desde",
   "em", "entre", "para", "per", "perante", "por", "sem", "sob", "sobre", "e", "mas",
   "nem", "ou", "logo", "pois", "contudo", "todavia", "entretanto", "que",
   "se", "como", "quando", "onde", "porque", "qual", "quais", "quanto", "quantos",
   "quanta", "quantas", "quem", "o", "os", "um", "uma", "uns", "umas", "este",
   "esta", "estes", "estas", "esse", "essa", "esses", "essas", "aquele", "aquela", "aqueles",
   "aquelas", "isto", "isso", "aquilo", "eu", "tu", "ele", "ela", "eles", "elas",
   "me", "mim", "comigo", "te", "ti", "contigo", "si", "consigo", "nos", "conosco",
   "vos", "convosco", "lhe", "lhes", "meu", "minha", "meus", "minhas", "teu", "tua", "teus",
   "tuas", "seu", "sua", "seus", "suas", "nosso", "nossa", "nossos", "nossas", "vosso",
   "vossa", "vossos", "vossas", "do", "da", "dos", "das", "no", "na", "nas", "pelo",
   "pela", "pelos", "pelas", "num", "numa", "nuns", "numas", "dum", "duma", "duns", "dumas",
   "ser", "estar", "ter", "haver", "ir", "vir", "dar", "fazer", "dizer", "ver", "saber",
   "poder", "querer", "ficar", "parecer", "deixar", "passar", "chegar", "trazer", "levar",
   "encontrar", "sentir", "continuar", "acabar", "entrar", "sair", "voltar",
   "muito", "mais", "menos", "bem", "mal", "melhor", "pior", "maior", "menor", "grande",
   "pequeno", "novo", "velho", "primeiro", "outro", "mesmo", "todo", "cada",
   "algum", "nenhum", "qualquer", "certo", "tanto", "pouco", "bastante", "demais",
   "ainda", "sempre", "nunca", "hoje", "ontem", "agora", "depois", "antes",
   "aqui", "ali", "dentro", "fora", "cima", "baixo", "perto", "longe",
   "sim", "talvez", "apenas", "inclusive"}

MinTokenLen == 2

\* tokenize with the length test len(word) >= 2
tokenize_keeps_two_letters(text) ==
  LET runs == SelectSeq(text, IsWordAtom)
      words == [k \in 1..Len(runs) |-> LowerAtom(runs[k])]
      Kept(word) == Len(word) >= MinTokenLen /\ word \notin stop_words
  IN SelectSeq(words, Kept)

tokenize(text) ==
  LET runs == SelectSeq(text, IsWordAtom)
      words == [k \in 1..Len(runs) |-> LowerAtom(runs[k])]
      Kept(word) == Len(word) > MinTokenLen /\ word \notin stop_words
  IN SelectSeq(words, Kept)

\* the distinct elements of a list: set(tokens)
Range(s) == {s[k] : k \in 1..Len(s)}

\* the distinct tokens of a list in the order of their first occurrence
Distinct(tokens) ==
  LET First(i) == \A j \in 1..(i - 1) : tokens[j] # tokens[i]
      firsts == SelectSeq(Indices(tokens), First)
  IN [k \in 1..Len(firsts) |-> tokens[firsts[k]]]

(***************************************************************************)
(* calculate_tf, calculate_idf, calculate_tfidf_matrix                     *)
(* A dict is a function on its set of keys; the empty dict is << >>.       *)
(***************************************************************************)
calculate_tf(tokens) ==
  LET total_tokens == Len(tokens)
      Count(token) == Cardinality({k \in 1..total_tokens : tokens[k] = token})
  IN IF total_tokens = 0 THEN << >>
     ELSE [token \in Range(tokens) |-> Frac(Count(token), total_tokens)]

\* calculate_idf that counts every occurrence of a term instead of every chunk with it
calculate_idf_per_occurrence(all_chunks_tokens) ==
  LET total_chunks == Len(all_chunks_tokens)
      terms == UNION {Range(all_chunks_tokens[k]) : k \in 1..total_chunks}
      Occurrences(term, k) ==
        Cardinality({j \in 1..Len(all_chunks_tokens[k]) : all_chunks_tokens[k][j] = term})
      term_chunk_count(term) ==
        SumOver([k \in 1..total_chunks |-> Occurrences(term, k)], 1..total_chunks)
  IN IF total_chunks = 0 THEN << >>
     ELSE [term \in terms |-> Ln(total_chunks, term_chunk_count(term))]

\* calculate_idf with the smoothed formula log((1 + total_chunks) / chunk_count)
calculate_idf_smoothed(all_chunks_tokens) ==
  LET total_chunks == Len(all_chunks_tokens)
      terms == UNION {Range(all_chunks_tokens[k]) : k \in 1..total_chunks}
      term_chunk_count(term) ==
        Cardinality({k \in 1..total_chunks : term \in Range(all_chunks_tokens[k])})
  IN IF total_chunks = 0 THEN << >>
     ELSE [term \in terms |-> Ln(total_chunks + 1, term_chunk_count(term))]

calculate_idf(all_chunks_tokens) ==
  LET total_chunks == Len(all_chunks_tokens)
      terms == UNION {Range(all_chunks_tokens[k]) : k \in 1..total_chunks}
      term_chunk_count(term) ==
        Cardinality({k \in 1..total_chunks : term \in Range(all_chunks_tokens[k])})
  IN IF total_chunks = 0 THEN << >>
     ELSE [term \in terms |-> Ln(total_chunks, term_chunk_count(term))]

\* every token of the model, in one fixed order
TokenUniverse ==
  <<"cachorro", "correu", "dormiu", "gato", "parque", "pdf", "sofa", "subiu", "telhado",
    "anticonstitucionalissimamente", "xyz">>

Reverse(s) == [k \in 1..Len(s) |-> s[Len(s) + 1 - k]]

\* the order in which a set of strings is iterated: it depends on the hash seed of the process
SetOrder(S, seed) ==
  LET In(t) == t \in S
  IN SelectSeq(IF seed = 1 THEN TokenUniverse ELSE Reverse(TokenUniverse), In)

\* lines 256: the token list of every chunk
AllChunksTokens(chunks) == [k \in 1..Len(chunks) |-> tokenize(chunks[k])]

\* lines 262-268 with vocab_index incremented before the assignment: ids from 1
BuildVocabulary_from_one(all_chunks_tokens, seed) ==
  LET Seen(k) == UNION {Range(all_chunks_tokens[j]) : j \in 1..(k - 1)}
      fresh == [k \in 1..Len(all_chunks_tokens) |->
                  SetOrder(Range(all_chunks_tokens[k]) \ Seen(k), seed)]
      order == Join(fresh, << >>)
  IN IF Len(order) = 0 THEN << >>
     ELSE [token \in Range(order) |-> CHOOSE i \in 1..Len(order) : order[i] = token]

\* lines 262-268: tokens are numbered in order of first appearance
BuildVocabulary(all_chunks_tokens, seed) ==
  LET Seen(k) == UNION {Range(all_chunks_tokens[j]) : j \in 1..(k - 1)}
      fresh == [k \in 1..Len(all_chunks_tokens) |->
                  SetOrder(Range(all_chunks_tokens[k]) \ Seen(k), seed)]
      order == Join(fresh, << >>)
  IN IF Len(order) = 0 THEN << >>
     ELSE [token \in Range(order) |-> (CHOOSE i \in 1..Len(order) : order[i] = token) - 1]

\* lines 271-281: one sparse vector per chunk
BuildMatrix(all_chunks_tokens, idf) ==
  [k \in 1..Len(all_chunks_tokens) |->
     LET tf_scores == calculate_tf(all_chunks_tokens[k])
         keys == DOMAIN tf_scores \cap DOMAIN idf
     IN IF keys = {} THEN << >>
        ELSE [token \in keys |-> FMul(tf_scores[token], idf[token])]]

\* the three results of calculate_tfidf_matrix: the idf table it stores in self, and the pair it returns
calculate_tfidf_matrix(chunks, seed) ==
  LET all_chunks_tokens == AllChunksTokens(chunks)
      idf == calculate_idf(all_chunks_tokens)
  IN [idf_scores |-> idf,
      tfidf_matrix |-> BuildMatrix(all_chunks_tokens, idf),
      vocabulary |-> BuildVocabulary(all_chunks_tokens, seed)]

(***************************************************************************)
(* cosine_similarity.  The result stands for the square of the float the   *)
(* code returns; all weights of the model are >= 0.                        *)
(***************************************************************************)
cosine_similarity(vec1, vec2) ==
  LET common_terms == DOMAIN vec1 \cap DOMAIN vec2
      l1 == LcmOver(vec1, DOMAIN vec1)
      l2 == LcmOver(vec2, DOMAIN vec2)
      i1 == [t \in DOMAIN vec1 |-> vec1[t].num * (l1 \div vec1[t].den)]
      i2 == [t \in DOMAIN vec2 |-> vec2[t].num * (l2 \div vec2[t].den)]
      dot_product == SumOver([t \in common_terms |-> i1[t] * i2[t]], common_terms)
      norm1sq == SumOver([t \in DOMAIN vec1 |-> i1[t] * i1[t]], DOMAIN vec1)
      norm2sq == SumOver([t \in DOMAIN vec2 |-> i2[t] * i2[t]], DOMAIN vec2)
  IN IF common_terms = {} THEN Zero
     ELSE IF norm1sq = 0 \/ norm2sq = 0 THEN Zero
     ELSE Frac(dot_product * dot_product, norm1sq * norm2sq)

(***************************************************************************)
(* Python floats.  A float is an IEEE-754 binary64 number; every operation *)
(* on floats returns the exact result rounded to the nearest float, ties   *)
(* to even.  The floats of the model are zero and the positive normal      *)
(* numbers: [m, e] stands for m * 2^e, where the significand m is a        *)
(* natural number of exactly 53 bits (or zero).  A natural number is the   *)
(* little-endian sequence of its digits in base 2^14, without leading      *)
(* zero digits, so that no intermediate value exceeds 32 bits.             *)
(***************************************************************************)
LimbBits == 14
Base == 2 ^ LimbBits
MantissaBits == 53

Max(a, b) == IF a >= b THEN a ELSE b

Limb(a, i) == IF i <= Len(a) THEN a[i] ELSE 0

\* drop the leading zero digits
RECURSIVE Trim(_)
Trim(a) == IF Len(a) > 0 /\ a[Len(a)] = 0 THEN Trim(SubSeq(a, 1, Len(a) - 1)) ELSE a

RECURSIVE BigAddR(_, _, _, _)
BigAddR(a, b, i, carry) ==
  IF i > Max(Len(a), Len(b))
  THEN IF carry = 0 THEN << >> ELSE <<carry>>
  ELSE LET t == Limb(a, i) + Limb(b, i) + carry
       IN <<t % Base>> \o BigAddR(a, b, i + 1, t \div Base)

BigAdd(a, b) == BigAddR(a, b, 1, 0)

\* the digit products of one column; at most four of them are not zero
Column(a, b, k) ==
  SumOver([i \in 1..Len(a) |-> a[i] * Limb(b, IF k + 1 - i >= 1 THEN k + 1 - i ELSE Len(b) + 1)],
          1..Len(a))

RECURSIVE BigMulR(_, _, _, _)
BigMulR(a, b, k, carry) ==
  IF k > Len(a) + Len(b) - 1 /\ carry = 0 THEN << >>
  ELSE LET t == (IF k > Len(a) + Len(b) - 1 THEN 0 ELSE Column(a, b, k)) + carry
       IN <<t % Base>> \o BigMulR(a, b, k + 1, t \div Base)

BigMul(a, b) == IF a = << >> \/ b = << >> THEN << >> ELSE Trim(BigMulR(a, b, 1, 0))

\* a < b
BigLess(a, b) ==
  IF Len(a) # Len(b) THEN Len(a) < Len(b)
  ELSE \E i \in 1..Len(a) :
         /\ a[i] < b[i]
         /\ \A j \in (i + 1)..Len(a) : a[j] = b[j]

\* a * 2^n
BigShl(a, n) ==
  IF a = << >> THEN << >>
  ELSE [i \in 1..(n \div LimbBits) |-> 0] \o BigMul(a, <<2 ^ (n % LimbBits)>>)

\* a \div 2^n
BigShr(a, n) ==
  LET q == n \div LimbBits
      r == n % LimbBits
      b == SubSeq(a, q + 1, Len(a))
  IN Trim([i \in 1..Len(b) |->
             (b[i] \div (2 ^ r)) + (Limb(b, i + 1) % (2 ^ r)) * (2 ^ (LimbBits - r))])

\* the number of bits of a digit
RECURSIVE LimbLen(_)
LimbLen(d) == IF d = 0 THEN 0 ELSE 1 + LimbLen(d \div 2)

\* the number of bits of a
BitLen(a) == IF a = << >> THEN 0 ELSE LimbBits * (Len(a) - 1) + LimbLen(a[Len(a)])

IsOdd(a) == a # << >> /\ a[1] % 2 = 1

F64Zero == [m |-> << >>, e |-> 0]

\* the float nearest to (n + r) * 2^e, where 0 <= r < 1 and r # 0 iff inexact
Round(n, e, inexact) ==
  LET len == BitLen(n)
      s == len - MantissaBits
      sig == BigShr(n, s)
      \* the midpoint between sig * 2^s and (sig + 1) * 2^s
      mid == BigShl(BigAdd(BigAdd(sig, sig), <<1>>), s - 1)
      up == \/ BigLess(mid, n)
            \/ mid = n /\ (inexact \/ IsOdd(sig))
      sig1 == IF up THEN BigAdd(sig, <<1>>) ELSE sig
  IN IF n = << >> THEN F64Zero
     ELSE IF s <= 0 THEN [m |-> BigShl(n, 0 - s), e |-> e + s]
     ELSE IF BitLen(sig1) > MantissaBits THEN [m |-> BigShr(sig1, 1), e |-> e + s + 1]
     ELSE [m |-> sig1, e |-> e + s]

\* float(k) for a small natural number k
F64Of(k) == IF k = 0 THEN F64Zero ELSE Round(<<k>>, 0, FALSE)

\* x * y
F64Mul(x, y) == Round(BigMul(x.m, y.m), x.e + y.e, FALSE)

\* x + y
F64Add(x, y) ==
  IF x.m = << >> THEN y
  ELSE IF y.m = << >> THEN x
  ELSE LET e == Min(x.e, y.e)
       IN Round(BigAdd(BigShl(x.m, x.e - e), BigShl(y.m, y.e - e)), e, FALSE)

\* the bits computed before rounding: three more than a significand has
WorkBits == MantissaBits + 3

\* the greatest q with q * d <= n among the numbers q0 + j, j < 2^bits: one bit per step
RECURSIVE Quotient(_, _, _, _)
Quotient(n, d, q0, bits) ==
  IF bits = 0 THEN q0
  ELSE LET trial == BigAdd(q0, BigShl(<<1>>, bits - 1))
       IN IF BigLess(n, BigMul(trial, d))
          THEN Quotient(n, d, q0, bits - 1)
          ELSE Quotient(n, d, trial, bits - 1)

\* the greatest r with r * r <= n among the numbers r0 + j, j < 2^bits: one bit per step
RECURSIVE Root(_, _, _)
Root(n, r0, bits) ==
  IF bits = 0 THEN r0
  ELSE LET trial == BigAdd(r0, BigShl(<<1>>, bits - 1))
       IN IF BigLess(n, BigMul(trial, trial))
          THEN Root(n, r0, bits - 1)
          ELSE Root(n, trial, bits - 1)

\* x / y, for y # 0
F64Div(x, y) ==
  LET n == BigShl(x.m, WorkBits)
      q == Quotient(n, y.m, << >>, WorkBits + 1)
  IN IF x.m = << >> THEN F64Zero
     ELSE Round(q, x.e - y.e - WorkBits, BigMul(q, y.m) # n)

\* math.sqrt(x)
F64Sqrt(x) ==
  LET k == WorkBits + ((x.e - WorkBits) % 2)
      n == BigShl(x.m, k)
      r == Root(n, << >>, WorkBits)
  IN IF x.m = << >> THEN F64Zero
     ELSE Round(r, (x.e - k) \div 2, BigMul(r, r) # n)

\* x < y
F64Less(x, y) ==
  IF y.m = << >> THEN FALSE
  ELSE IF x.m = << >> THEN TRUE
  ELSE x.e < y.e \/ (x.e = y.e /\ BigLess(x.m, y.m))

(***************************************************************************)
(* TF-IDF and cosine similarity on floats.  The operators above compute    *)
(* with exact fractions, which is enough for zero tests and for ranking;   *)
(* the operators below compute the same expressions as the code does, in   *)
(* binary64, where the order of a summation matters.  A dict of floats is  *)
(* the sequence of its items in insertion order.                           *)
(***************************************************************************)
\* math.log(x) as the C library returns it, for the quotients n / df with df <= n <= 4
MathLogTable ==
  <<<<[m |-> <<0, 0, 0, 1024>>, e |-> -52],
      [m |-> << >>, e |-> 0]>>,                              \* log(1.0) = 0.0
    <<[m |-> <<0, 0, 0, 1024>>, e |-> -51],
      [m |-> <<14831, 15336, 9263, 1419>>, e |-> -53]>>,     \* log(2.0) = 0.6931471805599453
    <<[m |-> <<0, 0, 0, 1536>>, e |-> -51],
      [m |-> <<779, 10932, 16039, 1124>>, e |-> -52]>>,      \* log(3.0) = 1.0986122886681098
    <<[m |-> <<0, 0, 0, 1536>>, e |-> -52],
      [m |-> <<6220, 13054, 12862, 1660>>, e |-> -54]>>,     \* log(1.5) = 0.4054651081081644
    <<[m |-> <<0, 0, 0, 1024>>, e |-> -50],
      [m |-> <<14831, 15336, 9263, 1419>>, e |-> -52]>>,     \* log(4.0) = 1.3862943611198906
    <<[m |-> <<5461, 5461, 5461, 1365>>, e |-> -52],
      [m |-> <<7057, 1235, 5665, 1178>>, e |-> -54]>>>>      \* log(4 / 3) = 0.28768207245178085

MathLog(x) == MathLogTable[CHOOSE k \in 1..Len(MathLogTable) : MathLogTable[k][1] = x][2]

\* sum(values): the builtin starts from the integer 0 and adds the values from left to right
RECURSIVE F64Sum(_)
F64Sum(values) ==
  IF values = << >> THEN F64Zero
  ELSE F64Add(F64Sum(SubSeq(values, 1, Len(values) - 1)), values[Len(values)])

Item(term, weight) == [term |-> term, weight |-> weight]

\* dict.keys() as a set
Terms(vec) == {vec[k].term : k \in 1..Len(vec)}

\* dict[term]
WeightOf(vec, term) == vec[CHOOSE k \in 1..Len(vec) : vec[k].term = term].weight

\* lines 192-213 on floats: the items are in the order of first occurrence (Counter)
calculate_tf_float(tokens) ==
  LET total_tokens == Len(tokens)
      firsts == Distinct(tokens)
      Count(token) == Cardinality({k \in 1..total_tokens : tokens[k] = token})
  IN [k \in 1..Len(firsts) |->
        Item(firsts[k], F64Div(F64Of(Count(firsts[k])), F64Of(total_tokens)))]

\* lines 215-243 on floats; the table is only used for lookups
calculate_idf_float(all_chunks_tokens) ==
  LET total_chunks == Len(all_chunks_tokens)
      terms == UNION {Range(all_chunks_tokens[k]) : k \in 1..total_chunks}
      term_chunk_count(term) ==
        Cardinality({k \in 1..total_chunks : term \in Range(all_chunks_tokens[k])})
  IN [term \in terms |->
        MathLog(F64Div(F64Of(total_chunks), F64Of(term_chunk_count(term))))]

\* lines 271-281 on floats: one dict per chunk
tfidf_matrix_float(all_chunks_tokens) ==
  LET idf == calculate_idf_float(all_chunks_tokens)
  IN [k \in 1..Len(all_chunks_tokens) |->
        LET tf_scores == calculate_tf_float(all_chunks_tokens[k])
        IN [j \in 1..Len(tf_scores) |->
              Item(tf_scores[j].term, F64Mul(tf_scores[j].weight, idf[tf_scores[j].term]))]]

\* score ** 2: the C library's pow(score, 2.0), which for the weights of the
\* model is the correctly rounded square
Squared(score) == F64Mul(score, score)

\* lines 285-312 on floats.  order is the order in which the set common_terms,
\* the intersection of two sets of strings, is iterated: it depends on the hash
\* values of the strings and on the order in which the intersection was filled.
cosine_similarity_float(vec1, vec2, order) ==
  LET common_terms == Terms(vec1) \cap Terms(vec2)
      dot_product ==
        F64Sum([k \in 1..Len(order) |->
                  F64Mul(WeightOf(vec1, order[k]), WeightOf(vec2, order[k]))])
      norm1 == F64Sqrt(F64Sum([k \in 1..Len(vec1) |-> Squared(vec1[k].weight)]))
      norm2 == F64Sqrt(F64Sum([k \in 1..Len(vec2) |-> Squared(vec2[k].weight)]))
  IN IF common_terms = {} THEN F64Zero
     ELSE IF norm1 = F64Zero \/ norm2 = F64Zero THEN F64Zero
     ELSE F64Div(dot_product, F64Mul(norm1, norm2))

\* lines 420-426 on floats: the query vector, in the order of calculate_tf
query_vector_float(query_tokens, idf) ==
  LET query_tf == calculate_tf_float(query_tokens)
      InIdf(k) == query_tf[k].term \in DOMAIN idf
      kept == SelectSeq(Indices(query_tf), InIdf)
  IN [j \in 1..Len(kept) |->
        Item(query_tf[kept[j]].term,
             F64Mul(query_tf[kept[j]].weight, idf[query_tf[kept[j]].term]))]

\* the orders in which a set can be iterated
Orders(S) ==
  {o \in [1..Cardinality(S) -> S] : \A i, j \in 1..Cardinality(S) : o[i] = o[j] => i = j}

(***************************************************************************)
(* The processor object.  self is the record of its attributes.  The two   *)
(* dicts the code mutates in place, documents and document_stats, are      *)
(* objects of a heap and self holds references to them; the other four     *)
(* attributes are only ever re-assigned and are held by value.             *)
(***************************************************************************)
None == "None"
\* the heap cell of no object
Free == [free |-> TRUE]

IsFree(v) == "free" \in DOMAIN v

MaxObj == 6
ObjIds == 1..MaxObj

EmptyHeap == [o \in ObjIds |-> Free]

\* the reference of a newly created object
NewRef(h) == CHOOSE o \in ObjIds : IsFree(h[o]) /\ \A p \in ObjIds : IsFree(h[p]) => o <= p

DefaultStats ==
  [total_documents |-> 0, total_chunks |-> 0, total_words |-> 0,
   vocabulary_size |-> 0, last_processed |-> None]

\* __init__ and clear_data assign the same fresh values
FreshAttributes(h) ==
  LET d == NewRef(h)
      h1 == [h EXCEPT ![d] = << >>]
      st == NewRef(h1)
      h2 == [h1 EXCEPT ![st] = DefaultStats]
  IN [self |-> [documents |-> d, chunks |-> << >>, tfidf_matrix |-> << >>,
                vocabulary |-> << >>, idf_scores |-> << >>, document_stats |-> st],
      heap |-> h2]

Init__(h) == FreshAttributes(h)

\* clear_data without the assignment of line 525
clear_data_keeps_idf(me, h) ==
  [FreshAttributes(h) EXCEPT !.self.idf_scores = me.idf_scores]

clear_data(me, h) == FreshAttributes(h)

\* dict[key] = value
DictPut(d, key, value) == [k \in DOMAIN d \cup {key} |-> IF k = key THEN value ELSE d[k]]

\* dict.get(key, default)
DictGet(d, key, default) == IF key \in DOMAIN d THEN d[key] ELSE default

(***************************************************************************)
(* process_document                                                        *)
(***************************************************************************)
\* str.lower() on a file extension
LowerExt(e) ==
  CASE e = ".PDF" -> ".pdf"
    [] e = ".CSV" -> ".csv"
    [] OTHER -> e

\* split_into_chunks run to its return: the loop of SplitStep until it stops
RECURSIVE SplitRun(_)
SplitRun(s) ==
  IF s.pc = "done" THEN s
  ELSE LET n == SplitStep(s)
       IN IF n = s THEN [s EXCEPT !.pc = "diverges"] ELSE SplitRun(n)

split_into_chunks(text, chunk_size, overlap) == SplitRun(SplitBegin(text, chunk_size, overlap))

\* lines 325-351: everything process_document computes before it stores anything
ProcessPlan(file, seed) ==
  LET file_extension == LowerExt(file.ext)
      raw_text == file.raw
      cleaned_text == clean_text(raw_text)
      split == split_into_chunks(cleaned_text, DefaultChunkSize, DefaultOverlap)
      chunks == split.chunks
      idx == calculate_tfidf_matrix(chunks, seed)
      Fail(e) == [error |-> e, file_extension |-> file_extension, cleaned_text |-> << >>,
                  chunks |-> << >>, idf_scores |-> << >>, tfidf_matrix |-> << >>,
                  vocabulary |-> << >>]
  IN IF file_extension \notin {".pdf", ".csv"} THEN Fail("Tipo de arquivo nao suportado")
     ELSE IF Strip(raw_text) = << >> THEN Fail("Nenhum texto foi extraido do documento")
     ELSE IF split.pc = "diverges" THEN Fail("diverges")
     ELSE IF split.raised # "none" THEN Fail(split.raised)
     ELSE IF chunks = << >> THEN Fail("Nenhum chunk foi gerado do documento")
     ELSE [error |-> "none", file_extension |-> file_extension, cleaned_text |-> cleaned_text,
           chunks |-> chunks, idf_scores |-> idx.idf_scores,
           tfidf_matrix |-> idx.tfidf_matrix, vocabulary |-> idx.vocabulary]

\* lines 359-365: self.document_stats.update({...})
StatsUpdate(stats, plan, now) ==
  [stats EXCEPT !.total_documents = 1,
                !.total_chunks = Len(plan.chunks),
                !.total_words = Len(Words(plan.cleaned_text)),
                !.vocabulary_size = Cardinality(DOMAIN plan.vocabulary),
                !.last_processed = now]

\* lines 368-375: the entry of self.documents[filename]
DocumentEntry(file, plan, now) ==
  [filename |-> file.filename, file_path |-> file.file_path, processed_at |-> now,
   chunk_count |-> Len(plan.chunks), file_size |-> file.size,
   file_type |-> plan.file_extension]

\* lines 377-384 and 391-395: the dict process_document returns
ProcessResult(file, plan) ==
  IF plan.error = "none"
  THEN [success |-> TRUE, filename |-> file.filename, chunks_count |-> Len(plan.chunks),
        vocabulary_size |-> Cardinality(DOMAIN plan.vocabulary), file_size |-> file.size,
        processing_time |-> "completed"]
  ELSE [success |-> FALSE, error |-> plan.error, filename |-> file.filename]

\* process_document that extends the stored chunks and vectors instead of replacing them
process_document_merge(me, h, file, plan, now1, now2) ==
  IF plan.error # "none"
  THEN [self |-> me, heap |-> h, val |-> ProcessResult(file, plan)]
  ELSE LET s1 == [me EXCEPT !.idf_scores = plan.idf_scores,
                            !.chunks = me.chunks \o plan.chunks,
                            !.tfidf_matrix = me.tfidf_matrix \o plan.tfidf_matrix,
                            !.vocabulary = plan.vocabulary]
           h1 == [h EXCEPT ![me.document_stats] = StatsUpdate(@, plan, now1)]
           h2 == [h1 EXCEPT ![me.documents] =
                               DictPut(@, file.filename, DocumentEntry(file, plan, now2))]
       IN [self |-> s1, heap |-> h2, val |-> ProcessResult(file, plan)]

\* process_document that empties self.chunks before it extracts the text
process_document_clears_first(me, h, file, plan, now1, now2) ==
  IF plan.error # "none"
  THEN [self |-> [me EXCEPT !.chunks = << >>], heap |-> h, val |-> ProcessResult(file, plan)]
  ELSE LET s1 == [me EXCEPT !.idf_scores = plan.idf_scores,
                              !.chunks = plan.chunks,
                              !.tfidf_matrix = plan.tfidf_matrix,
                              !.vocabulary = plan.vocabulary]
           h1 == [h EXCEPT ![me.document_stats] = StatsUpdate(@, plan, now1)]
           h2 == [h1 EXCEPT ![me.documents] =
                               DictPut(@, file.filename, DocumentEntry(file, plan, now2))]
       IN [self |-> s1, heap |-> h2, val |-> ProcessResult(file, plan)]

\* process_document that replaces the registry by the entry of the processed file
process_document_replaces_registry(me, h, file, plan, now1, now2) ==
  IF plan.error # "none"
  THEN [self |-> me, heap |-> h, val |-> ProcessResult(file, plan)]
  ELSE LET s1 == [me EXCEPT !.idf_scores = plan.idf_scores,
                              !.chunks = plan.chunks,
                              !.tfidf_matrix = plan.tfidf_matrix,
                              !.vocabulary = plan.vocabulary]
           h1 == [h EXCEPT ![me.document_stats] = StatsUpdate(@, plan, now1)]
           h2 == [h1 EXCEPT ![me.documents] =
                               DictPut(<< >>, file.filename, DocumentEntry(file, plan, now2))]
       IN [self |-> s1, heap |-> h2, val |-> ProcessResult(file, plan)]

\* process_document as one call
process_document(me, h, file, plan, now1, now2) ==
  IF plan.error # "none"
  THEN [self |-> me, heap |-> h, val |-> ProcessResult(file, plan)]
  ELSE LET s1 == [me EXCEPT !.idf_scores = plan.idf_scores,
                              !.chunks = plan.chunks,
                              !.tfidf_matrix = plan.tfidf_matrix,
                              !.vocabulary = plan.vocabulary]
           h1 == [h EXCEPT ![me.document_stats] = StatsUpdate(@, plan, now1)]
           h2 == [h1 EXCEPT ![me.documents] =
                               DictPut(@, file.filename, DocumentEntry(file, plan, now2))]
       IN [self |-> s1, heap |-> h2, val |-> ProcessResult(file, plan)]

(***************************************************************************)
(* search_similar_chunks                                                   *)
(***************************************************************************)
\* lines 420-426: the query vector, from the idf table of the corpus
QueryVector(query_tokens, idf) ==
  LET query_tf == calculate_tf(query_tokens)
      keys == DOMAIN query_tf \cap DOMAIN idf
  IN IF keys = {} THEN << >>
     ELSE [token \in keys |-> FMul(query_tf[token], idf[token])]

\* lines 444-447 without the sort: the first top_k in index order
SortAndTruncate_unsorted(similarities, top_k) ==
  SubSeq(similarities, 1, Min(top_k, Len(similarities)))

\* lines 444-447 with a sort that is not stable: equal similarities come out in descending index order
SortAndTruncate_ties_reversed(similarities, top_k) ==
  LET n == Len(similarities)
      Before(j, i) ==
        \/ FLess(similarities[i].similarity, similarities[j].similarity)
        \/ (similarities[j].similarity = similarities[i].similarity /\ j > i)
      Pos(i) == Cardinality({j \in 1..n : Before(j, i)}) + 1
      sorted == [k \in 1..n |-> similarities[CHOOSE i \in 1..n : Pos(i) = k]]
  IN SubSeq(sorted, 1, Min(top_k, n))

\* lines 444-447: stable sort by descending similarity, then the first top_k
SortAndTruncate(similarities, top_k) ==
  LET n == Len(similarities)
      Before(j, i) ==
        \/ FLess(similarities[i].similarity, similarities[j].similarity)
        \/ (similarities[j].similarity = similarities[i].similarity /\ j < i)
      Pos(i) == Cardinality({j \in 1..n : Before(j, i)}) + 1
      sorted == [k \in 1..n |-> similarities[CHOOSE i \in 1..n : Pos(i) = k]]
  IN SubSeq(sorted, 1, Min(top_k, n))

\* the loop of lines 434-442 with the test similarity >= 0
Hits_nonnegative(query_tfidf, matrix) == Indices(matrix)

\* lines 434-437: the indices (from 1) of the vectors with positive similarity
Hits(query_tfidf, matrix) ==
  LET Positive(i) == cosine_similarity(query_tfidf, matrix[i]) # Zero
  IN SelectSeq(Indices(matrix), Positive)

\* lines 438-442 with chunk indices counted from 1
Candidates_one_based(query_tfidf, matrix, chunks) ==
  LET hits == Hits(query_tfidf, matrix)
  IN [k \in 1..Len(hits) |->
        [chunk_index |-> hits[k],
         content |-> chunks[hits[k]],
         similarity |-> cosine_similarity(query_tfidf, matrix[hits[k]])]]

\* lines 438-442: the entries of the hits, in index order
Candidates(query_tfidf, matrix, chunks) ==
  LET hits == Hits(query_tfidf, matrix)
  IN [k \in 1..Len(hits) |->
        [chunk_index |-> hits[k] - 1,
         content |-> chunks[hits[k]],
         similarity |-> cosine_similarity(query_tfidf, matrix[hits[k]])]]

\* search_similar_chunks that ranks every chunk whatever the query vector is
search_similar_chunks_unfiltered(me, query, top_k) ==
  LET query_tfidf == QueryVector(tokenize(query), me.idf_scores)
      n == Min(Len(me.tfidf_matrix), Len(me.chunks))
  IN SortAndTruncate(
       [k \in 1..n |-> [chunk_index |-> k - 1, content |-> me.chunks[k],
                         similarity |-> cosine_similarity(query_tfidf, me.tfidf_matrix[k])]],
       top_k)

\* self.chunks[i] raises IndexError for a hit beyond the end of chunks; line 452 catches it
search_similar_chunks(me, query, top_k) ==
  LET query_tokens == tokenize(query)
      query_tfidf == QueryVector(query_tokens, me.idf_scores)
      hits == Hits(query_tfidf, me.tfidf_matrix)
  IN IF me.chunks = << >> \/ me.tfidf_matrix = << >> THEN << >>
     ELSE IF query_tokens = << >> THEN << >>
     ELSE IF query_tfidf = << >> THEN << >>
     ELSE IF \E k \in 1..Len(hits) : hits[k] > Len(me.chunks) THEN << >>
     ELSE SortAndTruncate(Candidates(query_tfidf, me.tfidf_matrix, me.chunks), top_k)

(***************************************************************************)
(* get_statistics                                                          *)
(***************************************************************************)
\* the returned dict is new and its document_stats is a copy: both are held by value
get_statistics(me, h) ==
  [document_stats |-> h[me.document_stats],
   chunks_loaded |-> Len(me.chunks),
   vocabulary_size |-> Cardinality(DOMAIN me.vocabulary),
   tfidf_matrix_size |-> Len(me.tfidf_matrix),
   status |-> IF me.chunks # << >> THEN "active" ELSE "empty"]

(***************************************************************************)
(* export_data, import_data                                                *)
(***************************************************************************)
export_data(me, now) ==
  [documents |-> me.documents, chunks |-> me.chunks,
   tfidf_matrix |-> me.tfidf_matrix, vocabulary |-> me.vocabulary,
   idf_scores |-> me.idf_scores, document_stats |-> me.document_stats,
   exported_at |-> now]

\* an argument of import_data that is not a dict (None, a list): data.get raises AttributeError
NotADict == [not_a_dict |-> TRUE]

\* import_data without the assignment of line 503
import_data_keeps_idf(me, h, data) ==
  IF "not_a_dict" \in DOMAIN data THEN [self |-> me, heap |-> h, val |-> FALSE]
  ELSE LET d == NewRef(h)
           h1 == IF "documents" \in DOMAIN data THEN h ELSE [h EXCEPT ![d] = << >>]
           st == NewRef(h1)
           h2 == IF "document_stats" \in DOMAIN data THEN h1 ELSE [h1 EXCEPT ![st] = DefaultStats]
       IN [self |-> [documents |-> DictGet(data, "documents", d),
                     chunks |-> DictGet(data, "chunks", << >>),
                     tfidf_matrix |-> DictGet(data, "tfidf_matrix", << >>),
                     vocabulary |-> DictGet(data, "vocabulary", << >>),
                     idf_scores |-> me.idf_scores,
                     document_stats |-> DictGet(data, "document_stats", st)],
           heap |-> h2, val |-> TRUE]

\* import_data without the assignment of line 501
import_data_keeps_matrix(me, h, data) ==
  IF "not_a_dict" \in DOMAIN data THEN [self |-> me, heap |-> h, val |-> FALSE]
  ELSE LET d == NewRef(h)
           h1 == IF "documents" \in DOMAIN data THEN h ELSE [h EXCEPT ![d] = << >>]
           st == NewRef(h1)
           h2 == IF "document_stats" \in DOMAIN data THEN h1 ELSE [h1 EXCEPT ![st] = DefaultStats]
       IN [self |-> [documents |-> DictGet(data, "documents", d),
                     chunks |-> DictGet(data, "chunks", << >>),
                     tfidf_matrix |-> me.tfidf_matrix,
                     vocabulary |-> DictGet(data, "vocabulary", << >>),
                     idf_scores |-> DictGet(data, "idf_scores", << >>),
                     document_stats |-> DictGet(data, "document_stats", st)],
           heap |-> h2, val |-> TRUE]

import_data(me, h, data) ==
  IF "not_a_dict" \in DOMAIN data THEN [self |-> me, heap |-> h, val |-> FALSE]
  ELSE LET d == NewRef(h)
           h1 == IF "documents" \in DOMAIN data THEN h ELSE [h EXCEPT ![d] = << >>]
           st == NewRef(h1)
           h2 == IF "document_stats" \in DOMAIN data THEN h1 ELSE [h1 EXCEPT ![st] = DefaultStats]
       IN [self |-> [documents |-> DictGet(data, "documents", d),
                     chunks |-> DictGet(data, "chunks", << >>),
                     tfidf_matrix |-> DictGet(data, "tfidf_matrix", << >>),
                     vocabulary |-> DictGet(data, "vocabulary", << >>),
                     idf_scores |-> DictGet(data, "idf_scores", << >>),
                     document_stats |-> DictGet(data, "document_stats", st)],
           heap |-> h2, val |-> TRUE]

(***************************************************************************)
(* Inputs of the chunker                                                   *)
(***************************************************************************)
LongWord == "anticonstitucionalissimamente"

MaxWords == 4
MaxChunkSize == 3

\* texts of n words separated by single spaces
WordsText(ws) == Join([k \in 1..Len(ws) |-> <<ws[k]>>], <<SP>>)

\* two words with whitespace before, between and after them
PaddedText == <<SP, "gato", SP, SP, LongWord, NL>>

\* the texts of at most MaxWords words separated by one space, and the padded text
SplitTexts ==
  {WordsText(ws) : ws \in UNION {[1..n -> {LongWord, "gato"}] : n \in 0..MaxWords}}
    \cup {PaddedText}

LongTextWords == 501
LongText == WordsText([k \in 1..LongTextWords |-> IF k % 2 = 0 THEN LongWord ELSE "gato"])

\* text, chunk_size, overlap with 0 <= overlap <= chunk_size, and the default and equal-size calls
SplitConfigs ==
  {cfg \in SplitTexts \X (1..MaxChunkSize) \X (0..MaxChunkSize) : cfg[3] <= cfg[2]}
    \cup {<<LongText, DefaultChunkSize, DefaultOverlap>>,
          <<LongText, DefaultChunkSize, DefaultChunkSize>>}

NoSplit ==
  [pc |-> "idle", text |-> << >>, chunk_size |-> 0, overlap |-> 0,
   start |-> 0, end |-> 0, chunks |-> << >>, raised |-> "none"]

(***************************************************************************)
(* Inputs of the processor                                                 *)
(***************************************************************************)
\* datetime.now().isoformat()
Times == {"t1"}

\* PYTHONHASHSEED, as far as it orders the iteration of a set of tokens
Seeds == {1, 2}

TextGato == <<"O", SP, "gato", SP, "no", SP, "telhado">>
TextCsv == <<"o", SP, "cachorro", NL, "correu", ",", SP, SP, "parque", "@", "gato">>
TextShort == <<"gato">>
TextStop == <<"De", SP, "a", SP, "o", ",", SP, "para", SP, "com">>
TextBlank == <<SP, NL>>

\* file_path and filename of a call, with what extraction and os.path.getsize give for the file
Files ==
  {[filename |-> "gato.pdf", ext |-> ".pdf", file_path |-> "/tmp/gato.pdf", raw |-> TextGato, size |-> 17],
   [filename |-> "dados.CSV", ext |-> ".CSV", file_path |-> "/tmp/dados.CSV", raw |-> TextCsv, size |-> 30],
   [filename |-> "curto.pdf", ext |-> ".pdf", file_path |-> "/tmp/curto.pdf", raw |-> TextShort, size |-> 4],
   [filename |-> "stop.pdf", ext |-> ".pdf", file_path |-> "/tmp/stop.pdf", raw |-> TextStop, size |-> 16],
   [filename |-> "vazio.pdf", ext |-> ".pdf", file_path |-> "/tmp/vazio.pdf", raw |-> TextBlank, size |-> 2],
   [filename |-> "notas.txt", ext |-> ".txt", file_path |-> "/tmp/notas.txt", raw |-> TextGato, size |-> 17],
   [filename |-> "longo.pdf", ext |-> ".pdf", file_path |-> "/tmp/longo.pdf", raw |-> LongText, size |-> 9000]}

\* the plan of every file under every seed
PlanTable == [f \in Files |-> [h \in Seeds |-> ProcessPlan(f, h)]]

Queries ==
  {<<"gato">>,
   <<"Gato", SP, "parque">>,
   <<"de", SP, "a", SP, "o">>,
   <<"ab", SP, "x", "?">>,
   <<"xyz">>,
   <<"gato", SP, "xyz">>,
   << >>}

\* top_k of a call: nothing, the best hit, the answer context
TopKs == {0, 1, 3}

\* a snapshot made elsewhere: the index of three one-line chunks
ExtChunks ==
  <<<<"o", SP, "gato", SP, "subiu", SP, "no", SP, "telhado">>,
    <<"o", SP, "cachorro", SP, "correu", SP, "no", SP, "parque">>,
    <<"o", SP, "gato", SP, "dormiu", SP, "no", SP, "sofa">>>>

ExtIndex == calculate_tfidf_matrix(ExtChunks, 1)

ExtSnapshot ==
  [documents |-> [f \in {"gatos.pdf"} |->
                    [filename |-> "gatos.pdf", file_path |-> "/tmp/gatos.pdf", processed_at |-> "t0",
                     chunk_count |-> 3, file_size |-> 80, file_type |-> ".pdf"]],
   chunks |-> ExtChunks,
   tfidf_matrix |-> ExtIndex.tfidf_matrix,
   vocabulary |-> ExtIndex.vocabulary,
   idf_scores |-> ExtIndex.idf_scores,
   document_stats |-> [total_documents |-> 1, total_chunks |-> 3, total_words |-> 15,
                       vocabulary_size |-> 8, last_processed |-> "t0"],
   exported_at |-> "t0"]

\* the fields import_data expects besides documents
ExpectedFields == {"chunks", "tfidf_matrix", "vocabulary", "idf_scores", "document_stats"}

Without(d, key) == [k \in DOMAIN d \ {key} |-> d[k]]

\* the arguments of import_data that do not come from export_data, by name
ExternalData ==
  [name \in {"complete", "empty"} \cup ExpectedFields |->
     IF name = "complete" THEN ExtSnapshot
     ELSE IF name = "empty" THEN << >>
     ELSE Without(ExtSnapshot, name)]

\* the caller's dict: its documents and document_stats values are objects of the heap
Materialize(ext, h) ==
  LET d == NewRef(h)
      h1 == IF "documents" \in DOMAIN ext THEN [h EXCEPT ![d] = ext.documents] ELSE h
      st == NewRef(h1)
      h2 == IF "document_stats" \in DOMAIN ext THEN [h1 EXCEPT ![st] = ext.document_stats] ELSE h1
  IN [data |-> [k \in DOMAIN ext |->
                  IF k = "documents" THEN d ELSE IF k = "document_stats" THEN st ELSE ext[k]],
      heap |-> h2]

\* the objects some attribute or some snapshot field refers to
Live(s, sn) ==
  {s.documents, s.document_stats}
    \cup (IF DOMAIN sn = {} THEN {} ELSE {sn.documents, sn.document_stats})

\* objects nothing refers to are garbage
Collect(h, live) == [o \in ObjIds |-> IF o \in live THEN h[o] ELSE Free]

\* no snapshot has been exported yet
NoSnapshot == << >>

NoRet == [op |-> "none", arg |-> None, val |-> None]

(***************************************************************************)
(* Specification of the chunker alone                                      *)
(***************************************************************************)
\* line 536: document_processor = None; an instance is named by its number, from 1
NoProcessor == 0

Threads == {"A", "B"}

\* the most calls of get_document_processor one thread makes
MaxCalls == 2

\* a thread that is not inside get_document_processor and has made no call yet
IdleCaller == [pc |-> "idle", calls |-> 0, got |-> {}]

\* the module as loaded: no instance, no thread inside get_document_processor
InitModule ==
  /\ document_processor = NoProcessor
  /\ instances = {}
  /\ gdp = [t \in Threads |-> IdleCaller]

\* a thread that is not inside process_document
IdleWriter == [pc |-> "idle", file |-> << >>, result |-> << >>]

NoObservation == [chunks |-> {}, tfidf_matrix |-> {}, idf_scores |-> {}]

\* a thread that is not inside search_similar_chunks
IdleReader ==
  [pc |-> "idle", query |-> << >>, top_k |-> 0, tokens |-> << >>, j |-> 0,
   query_tfidf |-> << >>, matrix |-> << >>, hits |-> << >>, k |-> 0,
   similarities |-> << >>, result |-> << >>, seen |-> NoObservation]

InitStore ==
  /\ InitModule
  /\ wr = IdleWriter
  /\ rd = IdleReader
  /\ hashseed \in Seeds
  /\ self = Init__(EmptyHeap).self
  /\ heap = Init__(EmptyHeap).heap
  /\ snap = NoSnapshot
  /\ ret = NoRet

storeVars == <<self, heap, snap, ret, hashseed, wr, rd, document_processor, instances, gdp>>

InitSplit == sp = NoSplit /\ InitStore

SplitCall ==
  /\ sp.pc \in {"idle", "done"}
  /\ \E cfg \in SplitConfigs : sp' = SplitBegin(cfg[1], cfg[2], cfg[3])
  /\ UNCHANGED storeVars

SplitLoop ==
  /\ sp.pc = "while"
  /\ sp' = SplitStep(sp)
  /\ UNCHANGED storeVars

NextSplit == SplitCall \/ SplitLoop

SpecSplit == InitSplit /\ [][NextSplit]_vars

(***************************************************************************)
(* Specification of the pure methods: every step is one call, on an        *)
(* argument of a bounded set, and ret holds the argument and the result    *)
(***************************************************************************)
\* the atoms of the texts given to tokenize
TokenizeAtoms == {"Gato", "gato", "ab", "de", "O", SP, ","}

MaxAtoms == 5

\* the texts of at most MaxAtoms atoms; neighbouring word characters are one atom
TokenizeTexts ==
  {t \in UNION {[1..n -> TokenizeAtoms] : n \in 0..MaxAtoms} :
     \A i \in 1..(Len(t) - 1) : ~(IsWordAtom(t[i]) /\ IsWordAtom(t[i + 1]))}

MaxIdfChunks == 3
MaxIdfTokens == 2

\* the token lists of at most MaxIdfTokens tokens
IdfTokenLists == UNION {[1..n -> {"gato", "parque"}] : n \in 0..MaxIdfTokens}

\* the arguments of calculate_idf: at most MaxIdfChunks token lists
IdfCorpora == UNION {[1..n -> IdfTokenLists] : n \in 0..MaxIdfChunks}

\* the token lists of a corpus of four chunks
FloatChunksTokens ==
  <<<<"gato", "parque", "porta", "dormiu", "subiu">>,
    <<"telhado", "bola", "janela", "subiu", "parque", "porta", "bola", "correu">>,
    <<"cachorro", "subiu", "cachorro", "dormiu", "sofa", "porta">>,
    <<"casa", "janela", "cachorro", "gato", "janela">>>>

FloatMatrix == tfidf_matrix_float(FloatChunksTokens)

\* the vectors given to cosine_similarity: three stored vectors of the corpus,
\* the empty vector, a vector whose weights are all zero
FloatVectors ==
  {FloatMatrix[1], FloatMatrix[3], FloatMatrix[4], << >>,
   <<Item("gato", F64Zero), Item("sofa", F64Zero)>>}

\* the pairs of different vectors
FloatPairs == {pair \in FloatVectors \X FloatVectors : pair[1] # pair[2]}

\* the lines of the texts given to clean_text: two long lines, a short line,
\* a line of exactly MinLineLen characters
CleanLines ==
  {<<"primeira", SP, "linha", SP, "longa">>,
   <<"curta">>,
   <<"segunda", SP, "frase", SP, "extensa">>,
   <<"0123456789">>}

MaxLines == 3

\* the texts of at most MaxLines lines
CleanTexts ==
  {Join(lines, <<NL>>) : lines \in UNION {[1..n -> CleanLines] : n \in 1..MaxLines}}

\* a call about to be made: the method and its argument
Call(method, arg) == [op |-> "call", arg |-> [method |-> method, arg |-> arg], val |-> None]

\* a processor as constructed, and one call about to be made
InitPure ==
  /\ InitModule
  /\ sp = NoSplit
  /\ wr = IdleWriter
  /\ rd = IdleReader
  /\ hashseed \in Seeds
  /\ self = Init__(EmptyHeap).self
  /\ heap = Init__(EmptyHeap).heap
  /\ snap = NoSnapshot
  /\ \/ \E text \in TokenizeTexts : ret = Call("tokenize", text)
     \/ \E all_chunks_tokens \in IdfCorpora : ret = Call("calculate_idf", all_chunks_tokens)
     \/ \E pair \in FloatPairs : ret = Call("cosine_similarity", pair)
     \/ \E text \in CleanTexts : ret = Call("clean_text", text)

Tokenize ==
  /\ ret.op = "call"
  /\ ret.arg.method = "tokenize"
  /\ ret' = [op |-> "tokenize", arg |-> ret.arg.arg, val |-> tokenize(ret.arg.arg)]
  /\ UNCHANGED <<document_processor, instances, gdp, sp, self, heap, snap, hashseed, wr, rd>>

CalculateIdf ==
  /\ ret.op = "call"
  /\ ret.arg.method = "calculate_idf"
  /\ ret' = [op |-> "calculate_idf", arg |-> ret.arg.arg, val |-> calculate_idf(ret.arg.arg)]
  /\ UNCHANGED <<document_processor, instances, gdp, sp, self, heap, snap, hashseed, wr, rd>>

\* one call of cosine_similarity; the set of common terms is iterated in some order
CosineSimilarity ==
  /\ ret.op = "call"
  /\ ret.arg.method = "cosine_similarity"
  /\ LET vec1 == ret.arg.arg[1]
         vec2 == ret.arg.arg[2]
     IN \E order \in Orders(Terms(vec1) \cap Terms(vec2)) :
          ret' = [op |-> "cosine_similarity", arg |-> <<vec1, vec2>>,
                  val |-> cosine_similarity_float(vec1, vec2, order)]
  /\ UNCHANGED <<document_processor, instances, gdp, sp, self, heap, snap, hashseed, wr, rd>>

CleanText ==
  /\ ret.op = "call"
  /\ ret.arg.method = "clean_text"
  /\ ret' = [op |-> "clean_text", arg |-> ret.arg.arg, val |-> clean_text(ret.arg.arg)]
  /\ UNCHANGED <<document_processor, instances, gdp, sp, self, heap, snap, hashseed, wr, rd>>

NextPure ==
  \/ Tokenize
  \/ CalculateIdf
  \/ CosineSimilarity
  \/ CleanText

SpecPure == InitPure /\ [][NextPure]_vars

(***************************************************************************)
(* The methods as actions: every method is one call                        *)
(***************************************************************************)
Init == sp = NoSplit /\ InitStore

ProcessDocumentOf(files) ==
  \E file \in files, now1 \in Times, now2 \in Times :
    LET r == process_document(self, heap, file, PlanTable[file][hashseed], now1, now2)
    IN /\ self' = r.self
       /\ heap' = r.heap
       /\ ret' = [op |-> "process_document", arg |-> file.filename, val |-> r.val]
       /\ UNCHANGED <<document_processor, instances, gdp, sp, snap, hashseed, wr, rd>>

\* search_similar_chunks that recomputes the IDF table from the query alone and stores it
SearchSimilarChunksOf_recomputes_idf(queries, top_ks) ==
  \E query \in queries, top_k \in top_ks :
    /\ self' = [self EXCEPT !.idf_scores = calculate_idf(<<tokenize(query)>>)]
    /\ ret' = [op |-> "search_similar_chunks", arg |-> <<query, top_k>>,
               val |-> search_similar_chunks(self', query, top_k)]
    /\ UNCHANGED <<document_processor, instances, gdp, sp, heap, snap, hashseed, wr, rd>>

SearchSimilarChunksOf(queries, top_ks) ==
  \E query \in queries, top_k \in top_ks :
    /\ ret' = [op |-> "search_similar_chunks", arg |-> <<query, top_k>>,
               val |-> search_similar_chunks(self, query, top_k)]
    /\ UNCHANGED <<document_processor, instances, gdp, sp, self, heap, snap, hashseed, wr, rd>>

ExportData ==
  \E now \in Times :
    /\ snap' = export_data(self, now)
    /\ ret' = [op |-> "export_data", arg |-> None, val |-> None]
    /\ heap' = Collect(heap, Live(self, snap'))
    /\ UNCHANGED <<document_processor, instances, gdp, sp, self, hashseed, wr, rd>>

ImportSnapshot ==
  /\ DOMAIN snap # {}
  /\ LET r == import_data(self, heap, snap)
     IN /\ self' = r.self
        /\ heap' = Collect(r.heap, Live(r.self, snap))
        /\ ret' = [op |-> "import_data", arg |-> "snapshot", val |-> r.val]
  /\ UNCHANGED <<document_processor, instances, gdp, sp, snap, hashseed, wr, rd>>

ImportExternalOf(names) ==
  \E name \in names :
    LET m == Materialize(ExternalData[name], heap)
        r == import_data(self, m.heap, m.data)
    IN /\ self' = r.self
       /\ heap' = Collect(r.heap, Live(r.self, snap))
       /\ ret' = [op |-> "import_data", arg |-> name, val |-> r.val]
       /\ UNCHANGED <<document_processor, instances, gdp, sp, snap, hashseed, wr, rd>>

ImportComplete == ImportExternalOf({"complete"})

ImportIncomplete == ImportExternalOf(DOMAIN ExternalData \ {"complete"})

ImportNotADict ==
  LET r == import_data(self, heap, NotADict)
  IN /\ self' = r.self
     /\ heap' = r.heap
     /\ ret' = [op |-> "import_data", arg |-> "not_a_dict", val |-> r.val]
     /\ UNCHANGED <<document_processor, instances, gdp, sp, snap, hashseed, wr, rd>>

ClearData ==
  LET r == clear_data(self, heap)
  IN /\ self' = r.self
     /\ heap' = Collect(r.heap, Live(r.self, snap))
     /\ ret' = [op |-> "clear_data", arg |-> None, val |-> None]
     /\ UNCHANGED <<document_processor, instances, gdp, sp, snap, hashseed, wr, rd>>

(***************************************************************************)
(* Specification of processing and searching                               *)
(***************************************************************************)
ProcessDocument == ProcessDocumentOf(Files)

SearchSimilarChunks == SearchSimilarChunksOf(Queries, TopKs)

Next ==
  \/ ProcessDocument
  \/ SearchSimilarChunks
  \/ ImportComplete
  \/ ClearData

Spec == Init /\ [][Next]_vars

(***************************************************************************)
(* Specification of export and import                                      *)
(***************************************************************************)
SnapFiles == {f \in Files : f.filename \in {"gato.pdf", "stop.pdf"}}

SnapQueries == {<<"gato">>, <<"xyz">>}

ProcessSnap == ProcessDocumentOf(SnapFiles)

SearchSnap == SearchSimilarChunksOf(SnapQueries, {3})

NextSnap ==
  \/ ProcessSnap
  \/ SearchSnap
  \/ ExportData
  \/ ImportSnapshot
  \/ ImportComplete
  \/ ImportIncomplete
  \/ ImportNotADict
  \/ ClearData

SpecSnap == Init /\ [][NextSnap]_vars

(***************************************************************************)
(* Specification of the store with whole snapshots only: processing,       *)
(* clearing, searching, exporting, and importing what export_data gave,    *)
(* here or in the processor that made the three-chunk snapshot             *)
(***************************************************************************)
NextWhole ==
  \/ ProcessSnap
  \/ SearchSnap
  \/ ClearData
  \/ ExportData
  \/ ImportSnapshot
  \/ ImportComplete

SpecWhole == Init /\ [][NextWhole]_vars

(***************************************************************************)
(* Specification of the statistics: processing, clearing, exporting,       *)
(* importing an exported snapshot, and reading the statistics              *)
(***************************************************************************)
GetStatistics ==
  /\ ret' = [op |-> "get_statistics", arg |-> None, val |-> get_statistics(self, heap)]
  /\ UNCHANGED <<document_processor, instances, gdp, sp, self, heap, snap, hashseed, wr, rd>>

\* the caller changes the dicts get_statistics returned
MutateStatistics ==
  /\ ret.op = "get_statistics"
  /\ ret.val.chunks_loaded = Len(self.chunks)
  /\ ret' = [ret EXCEPT !.val.document_stats.total_chunks = @ + 1,
                         !.val.chunks_loaded = @ + 1]
  /\ UNCHANGED <<document_processor, instances, gdp, sp, self, heap, snap, hashseed, wr, rd>>

NextStats ==
  \/ ProcessSnap
  \/ ClearData
  \/ ExportData
  \/ ImportSnapshot
  \/ GetStatistics
  \/ MutateStatistics

SpecStats == Init /\ [][NextStats]_vars

(***************************************************************************)
(* Specification of one thread in process_document and one thread in       *)
(* search_similar_chunks on the same processor.  Nothing in the code       *)
(* excludes the two; a step is one read or one write of an attribute of    *)
(* self, together with the local computation that follows it.              *)
(***************************************************************************)
ConcFiles == {f \in Files : f.filename \in {"gato.pdf", "dados.CSV", "vazio.pdf"}}

ConcQueries == {<<"gato">>, <<"Gato", SP, "parque">>}

WriterPlan == PlanTable[wr.file][hashseed]

\* the searching thread leaves the method with this result
Leave(r, result) == [r EXCEPT !.pc = "idle", !.result = result]

Saw(r, field, value) == [r EXCEPT !.seen[field] = @ \cup {value}]

\* lines 325-351 up to the call of calculate_idf: a failure returns at once
WriterCall ==
  /\ wr.pc = "idle"
  /\ \E file \in ConcFiles :
       LET plan == PlanTable[file][hashseed]
       IN wr' = IF plan.error # "none"
                THEN [pc |-> "idle", file |-> file, result |-> ProcessResult(file, plan)]
                ELSE [pc |-> "l259", file |-> file, result |-> << >>]
  /\ UNCHANGED <<document_processor, instances, gdp, sp, self, heap, snap, ret, hashseed, rd>>

\* line 259: self.idf_scores = self.calculate_idf(all_chunks_tokens)
WriterStoreIdf ==
  /\ wr.pc = "l259"
  /\ self' = [self EXCEPT !.idf_scores = WriterPlan.idf_scores]
  /\ wr' = [wr EXCEPT !.pc = "l354"]
  /\ UNCHANGED <<document_processor, instances, gdp, sp, heap, snap, ret, hashseed, rd>>

\* line 354: self.chunks = chunks
WriterStoreChunks ==
  /\ wr.pc = "l354"
  /\ self' = [self EXCEPT !.chunks = WriterPlan.chunks]
  /\ wr' = [wr EXCEPT !.pc = "l355"]
  /\ UNCHANGED <<document_processor, instances, gdp, sp, heap, snap, ret, hashseed, rd>>

\* line 355: self.tfidf_matrix = tfidf_matrix
WriterStoreMatrix ==
  /\ wr.pc = "l355"
  /\ self' = [self EXCEPT !.tfidf_matrix = WriterPlan.tfidf_matrix]
  /\ wr' = [wr EXCEPT !.pc = "l356"]
  /\ UNCHANGED <<document_processor, instances, gdp, sp, heap, snap, ret, hashseed, rd>>

\* line 356: self.vocabulary = vocabulary
WriterStoreVocabulary ==
  /\ wr.pc = "l356"
  /\ self' = [self EXCEPT !.vocabulary = WriterPlan.vocabulary]
  /\ wr' = [wr EXCEPT !.pc = "l359"]
  /\ UNCHANGED <<document_processor, instances, gdp, sp, heap, snap, ret, hashseed, rd>>

\* lines 359-365: self.document_stats.update({...})
WriterUpdateStats ==
  /\ wr.pc = "l359"
  /\ \E now \in Times :
       heap' = [heap EXCEPT ![self.document_stats] = StatsUpdate(@, WriterPlan, now)]
  /\ wr' = [wr EXCEPT !.pc = "l368"]
  /\ UNCHANGED <<document_processor, instances, gdp, sp, self, snap, ret, hashseed, rd>>

\* lines 368-387: self.documents[filename] = {...} and the return
WriterStoreDocument ==
  /\ wr.pc = "l368"
  /\ \E now \in Times :
       heap' = [heap EXCEPT ![self.documents] =
                  DictPut(@, wr.file.filename, DocumentEntry(wr.file, WriterPlan, now))]
  /\ wr' = [wr EXCEPT !.pc = "idle", !.result = ProcessResult(wr.file, WriterPlan)]
  /\ UNCHANGED <<document_processor, instances, gdp, sp, self, snap, ret, hashseed, rd>>

\* a corpus of several chunks is installed while neither thread is inside a method
QuietImport ==
  /\ wr.pc = "idle"
  /\ rd.pc = "idle"
  /\ LET m == Materialize(ExternalData["complete"], heap)
         r == import_data(self, m.heap, m.data)
     IN /\ self' = r.self
        /\ heap' = Collect(r.heap, Live(r.self, snap))
  /\ UNCHANGED <<document_processor, instances, gdp, sp, snap, ret, hashseed, wr, rd>>

ReaderCall ==
  /\ rd.pc = "idle"
  /\ \E query \in ConcQueries, top_k \in {3} :
       rd' = [IdleReader EXCEPT !.pc = "l409a", !.query = query, !.top_k = top_k]
  /\ UNCHANGED <<document_processor, instances, gdp, sp, self, heap, snap, ret, hashseed, wr>>

\* line 409, first operand: not self.chunks
ReaderTestChunks ==
  /\ rd.pc = "l409a"
  /\ LET r == Saw(rd, "chunks", self.chunks)
     IN rd' = IF self.chunks = << >> THEN Leave(r, << >>) ELSE [r EXCEPT !.pc = "l409b"]
  /\ UNCHANGED <<document_processor, instances, gdp, sp, self, heap, snap, ret, hashseed, wr>>

\* line 409, second operand: not self.tfidf_matrix; then lines 414-421 on locals
ReaderTestMatrix ==
  /\ rd.pc = "l409b"
  /\ LET r == Saw(rd, "tfidf_matrix", self.tfidf_matrix)
         query_tokens == tokenize(rd.query)
     IN rd' = IF self.tfidf_matrix = << >> THEN Leave(r, << >>)
              ELSE IF query_tokens = << >> THEN Leave(r, << >>)
              ELSE [r EXCEPT !.pc = "l425", !.tokens = query_tokens, !.j = 1]
  /\ UNCHANGED <<document_processor, instances, gdp, sp, self, heap, snap, ret, hashseed, wr>>

\* after the loop of lines 424-426: lines 428-430
AfterTokens(r) ==
  IF r.j <= Len(Distinct(r.tokens)) THEN [r EXCEPT !.pc = "l425"]
  ELSE IF r.query_tfidf = << >> THEN Leave(r, << >>)
  ELSE [r EXCEPT !.pc = "l434"]

\* line 425: if token in self.idf_scores
ReaderTestIdf ==
  /\ rd.pc = "l425"
  /\ LET r == Saw(rd, "idf_scores", self.idf_scores)
         token == Distinct(rd.tokens)[rd.j]
     IN rd' = IF token \in DOMAIN self.idf_scores THEN [r EXCEPT !.pc = "l426"]
              ELSE AfterTokens([r EXCEPT !.j = @ + 1])
  /\ UNCHANGED <<document_processor, instances, gdp, sp, self, heap, snap, ret, hashseed, wr>>

\* line 426: query_tfidf[token] = tf_score * self.idf_scores[token]; a KeyError ends the search
ReaderGetIdf ==
  /\ rd.pc = "l426"
  /\ LET r == Saw(rd, "idf_scores", self.idf_scores)
         token == Distinct(rd.tokens)[rd.j]
         tf_score == calculate_tf(rd.tokens)[token]
     IN rd' = IF token \notin DOMAIN self.idf_scores THEN Leave(r, << >>)
              ELSE AfterTokens([r EXCEPT !.j = @ + 1,
                                         !.query_tfidf = DictPut(@, token,
                                              FMul(tf_score, self.idf_scores[token]))])
  /\ UNCHANGED <<document_processor, instances, gdp, sp, self, heap, snap, ret, hashseed, wr>>

\* lines 444-450 on locals
Finish(r) == Leave(r, SortAndTruncate(r.similarities, r.top_k))

\* line 434: enumerate(self.tfidf_matrix); the similarities are computed on this list
ReaderIterate ==
  /\ rd.pc = "l434"
  /\ LET r == Saw(rd, "tfidf_matrix", self.tfidf_matrix)
         hits == Hits(rd.query_tfidf, self.tfidf_matrix)
     IN rd' = IF hits = << >> THEN Finish(r)
              ELSE [r EXCEPT !.pc = "l440", !.matrix = self.tfidf_matrix, !.hits = hits, !.k = 1]
  /\ UNCHANGED <<document_processor, instances, gdp, sp, self, heap, snap, ret, hashseed, wr>>

\* line 440: 'content': self.chunks[i]; an IndexError ends the search
ReaderReadChunk ==
  /\ rd.pc = "l440"
  /\ LET r == Saw(rd, "chunks", self.chunks)
         i == rd.hits[rd.k]
         entry == [chunk_index |-> i - 1, content |-> self.chunks[i],
                   similarity |-> cosine_similarity(rd.query_tfidf, rd.matrix[i])]
     IN rd' = IF i > Len(self.chunks) THEN Leave(r, << >>)
              ELSE LET r2 == [r EXCEPT !.similarities = Append(@, entry), !.k = @ + 1]
                   IN IF r2.k > Len(r2.hits) THEN Finish(r2) ELSE r2
  /\ UNCHANGED <<document_processor, instances, gdp, sp, self, heap, snap, ret, hashseed, wr>>

NextConc ==
  \/ WriterCall
  \/ WriterStoreIdf
  \/ WriterStoreChunks
  \/ WriterStoreMatrix
  \/ WriterStoreVocabulary
  \/ WriterUpdateStats
  \/ WriterStoreDocument
  \/ QuietImport
  \/ ReaderCall
  \/ ReaderTestChunks
  \/ ReaderTestMatrix
  \/ ReaderTestIdf
  \/ ReaderGetIdf
  \/ ReaderIterate
  \/ ReaderReadChunk

SpecConc == Init /\ [][NextConc]_vars

(***************************************************************************)
(* Specification of get_document_processor called by two threads.  Nothing *)
(* in the code excludes the two; a step is the call, the test of the       *)
(* global at line 541, the construction and assignment of line 542, or the *)
(* read of the global at line 543.                                         *)
(***************************************************************************)
processorVars == <<sp, self, heap, snap, ret, hashseed, wr, rd>>

\* a thread enters get_document_processor
GdpCall(t) ==
  /\ gdp[t].pc = "idle"
  /\ gdp[t].calls < MaxCalls
  /\ gdp' = [gdp EXCEPT ![t].pc = "l541", ![t].calls = @ + 1]
  /\ UNCHANGED <<document_processor, instances, processorVars>>

\* line 541: if document_processor is None
GdpTest(t) ==
  /\ gdp[t].pc = "l541"
  /\ gdp' = [gdp EXCEPT ![t].pc = IF document_processor = NoProcessor THEN "l542" ELSE "l543"]
  /\ UNCHANGED <<document_processor, instances, processorVars>>

\* line 542: document_processor = DocumentProcessorOnline()
GdpCreate(t) ==
  /\ gdp[t].pc = "l542"
  /\ LET new == Cardinality(instances) + 1
     IN /\ instances' = instances \cup {new}
        /\ document_processor' = new
  /\ gdp' = [gdp EXCEPT ![t].pc = "l543"]
  /\ UNCHANGED processorVars

\* line 543: return document_processor
GdpReturn(t) ==
  /\ gdp[t].pc = "l543"
  /\ gdp' = [gdp EXCEPT ![t].pc = "idle", ![t].got = @ \cup {document_processor}]
  /\ UNCHANGED <<document_processor, instances, processorVars>>

NextGlobal == \E t \in Threads : GdpCall(t) \/ GdpTest(t) \/ GdpCreate(t) \/ GdpReturn(t)

SpecGlobal == Init /\ [][NextGlobal]_vars

(***************************************************************************)
(* Views used by the properties                                            *)
(***************************************************************************)
\* the attributes with the two dict objects read through the heap
Deref(me, h) ==
  [me EXCEPT !.documents = h[me.documents], !.document_stats = h[me.document_stats]]

\* the fields of a snapshot with the two dict objects read through the heap
SnapshotView(sn, h) ==
  IF DOMAIN sn = {} THEN sn
  ELSE [sn EXCEPT !.documents = h[sn.documents], !.document_stats = h[sn.document_stats]]

\* chunks, vectors, vocabulary and IDF table
Corpus(me) ==
  [chunks |-> me.chunks, tfidf_matrix |-> me.tfidf_matrix,
   vocabulary |-> me.vocabulary, idf_scores |-> me.idf_scores]

FileOf(filename) == CHOOSE f \in Files : f.filename = filename

\* the tokens process_document can extract from a file
ExtractableTokens(file) == tokenize(clean_text(file.raw))

(***************************************************************************)
(* Properties of split_into_chunks (SpecSplit)                             *)
(***************************************************************************)
WordCount == Len(Words(sp.text))

\* C2: for a text of more than chunk_size words and 0 <= overlap < chunk_size the
\* loop of split_into_chunks stops, without error, as soon as the window that
\* reaches the last word (the final partial window) has been handled once.
C2_LoopStopsAfterFinalWindow ==
  (sp.pc # "idle" /\ WordCount > sp.chunk_size /\ sp.overlap < sp.chunk_size
     /\ sp.end = WordCount)
    => (sp.pc = "done" /\ sp.raised = "none")

\* C3: a call with overlap >= chunk_size on a text of more than chunk_size words
\* is rejected with a configuration error and never enters the windowing loop.
C3_InvertedOverlapRejected ==
  (sp.pc # "idle" /\ WordCount > sp.chunk_size /\ sp.overlap >= sp.chunk_size)
    => (sp.pc = "done" /\ sp.raised = "ConfigurationError" /\ sp.end = 0)

\* the words of the chunks, without the first overlap words of every chunk after the first
Reconstruct(chunks, overlap) ==
  Join([k \in 1..Len(chunks) |->
          IF k = 1 THEN Words(chunks[k])
          ELSE SubSeq(Words(chunks[k]), overlap + 1, Len(Words(chunks[k])))],
       << >>)

\* C16: for a text of at least chunk_size words and an overlap < chunk_size,
\* the chunks split_into_chunks returns, joined without the first overlap
\* words of every chunk after the first, give back the words of the text in
\* order, none lost.
C16_ChunksReconstructText ==
  (sp.pc = "done" /\ sp.raised = "none"
     /\ WordCount >= sp.chunk_size /\ sp.overlap < sp.chunk_size)
    => Reconstruct(sp.chunks, sp.overlap) = Words(sp.text)

\* C25: when the text has at most chunk_size words, split_into_chunks returns
\* exactly one chunk, the input text unchanged, also for the empty text and
\* for texts of 50 characters or fewer.
C25_SingleChunkIsText ==
  (sp.pc # "idle" /\ WordCount <= sp.chunk_size)
    => (sp.pc = "done" /\ sp.raised = "none" /\ sp.chunks = <<sp.text>>)

\* a short text with leading and trailing whitespace was returned as it is
C25_Witness ==
  /\ sp.pc = "done"
  /\ sp.text = PaddedText
  /\ WordCount = sp.chunk_size
  /\ sp.chunks = <<PaddedText>>

(***************************************************************************)
(* Properties of concurrent processing and searching (SpecConc)            *)
(***************************************************************************)
\* the corpora that are ever installed as a whole: the empty one, the one of
\* each document, and the imported one
WholeCorpora ==
  {Corpus(Init__(EmptyHeap).self), Corpus(ExtSnapshot)}
    \cup {Corpus(PlanTable[f][hashseed]) : f \in {g \in ConcFiles : PlanTable[g][hashseed].error = "none"}}

\* C1: all the values of chunks, tfidf_matrix and idf_scores that one search
\* reads belong to one and the same corpus, the one before or the one after a
\* concurrent process_document.
C1_SearchSeesOneCorpus ==
  \E c \in WholeCorpora :
    /\ rd.seen.chunks \subseteq {c.chunks}
    /\ rd.seen.tfidf_matrix \subseteq {c.tfidf_matrix}
    /\ rd.seen.idf_scores \subseteq {c.idf_scores}

(***************************************************************************)
(* Properties of export and import (SpecSnap)                              *)
(***************************************************************************)
IncompleteNames == DOMAIN ExternalData \ {"complete"}

\* C4: import_data of a snapshot that lacks an expected field returns False and
\* leaves every attribute of the processor as it was.
C4_IncompleteImportRejected ==
  [][(ret'.op = "import_data" /\ ret'.arg \in IncompleteNames)
       => (ret'.val = FALSE /\ Deref(self', heap') = Deref(self, heap))]_vars

\* C5: in every reachable state, importing what export_data returns succeeds and
\* gives the same chunks, vectors, vocabulary and IDF table, and the same search
\* results, in the exporting processor and in a newly constructed one.
C5_RoundTrip ==
  \A now \in Times :
    LET data == export_data(self, now)
        same == import_data(self, heap, data)
        fresh == Init__(heap)
        other == import_data(fresh.self, fresh.heap, data)
    IN /\ same.val = TRUE
       /\ other.val = TRUE
       /\ Corpus(same.self) = Corpus(self)
       /\ Corpus(other.self) = Corpus(self)
       /\ \A query \in Queries, top_k \in TopKs :
            /\ search_similar_chunks(same.self, query, top_k)
                 = search_similar_chunks(self, query, top_k)
            /\ search_similar_chunks(other.self, query, top_k)
                 = search_similar_chunks(self, query, top_k)

\* a snapshot of a corpus of several chunks has just been imported back
C5_Witness ==
  /\ ret.op = "import_data"
  /\ ret.arg = "snapshot"
  /\ ret.val = TRUE
  /\ Len(self.chunks) > 1
  /\ Corpus(self) = Corpus(snap)
  /\ search_similar_chunks(self, <<"gato">>, 3) # << >>

\* C6: once a snapshot has been exported, a successful process_document leaves
\* every field of that snapshot, documents and document_stats included, unchanged.
C6_SnapshotIndependent ==
  [][(ret'.op = "process_document" /\ ret'.val.success /\ DOMAIN snap # {})
       => SnapshotView(snap', heap') = SnapshotView(snap, heap)]_vars

\* C18: clear_data leaves the empty corpus: no chunks, no vectors, empty
\* vocabulary, empty IDF table, no documents, all statistics zero with
\* last_processed None; then search_similar_chunks returns the empty list
\* for every query and get_statistics reports the status 'empty'.
C18_ClearLeavesEmptyCorpus ==
  ret.op = "clear_data"
    => /\ self.chunks = << >>
       /\ self.tfidf_matrix = << >>
       /\ DOMAIN self.vocabulary = {}
       /\ DOMAIN self.idf_scores = {}
       /\ DOMAIN heap[self.documents] = {}
       /\ heap[self.document_stats] =
            [total_documents |-> 0, total_chunks |-> 0, total_words |-> 0,
             vocabulary_size |-> 0, last_processed |-> None]
       /\ \A query \in Queries, top_k \in TopKs :
            search_similar_chunks(self, query, top_k) = << >>
       /\ get_statistics(self, heap).status = "empty"
       /\ get_statistics(self, heap).chunks_loaded = 0

\* clear_data has run on a processor whose corpus had been exported before
C18_Witness ==
  /\ ret.op = "clear_data"
  /\ DOMAIN snap # {}
  /\ snap.chunks # << >>
  /\ DOMAIN snap.idf_scores # {}
  /\ heap[snap.document_stats].total_chunks > 0

(***************************************************************************)
(* Properties of processing and searching (Spec)                           *)
(***************************************************************************)
\* C7: process_document of a file whose text is empty or has no extractable
\* token after clean_text returns success = False and installs nothing.
C7_EmptyInputFails ==
  [][(ret'.op = "process_document" /\ ExtractableTokens(FileOf(ret'.arg)) = << >>)
       => (ret'.val.success = FALSE /\ self' = self)]_vars

\* C8: after a successful process_document the chunks, vectors, vocabulary and
\* IDF table are exactly those of the processed document; nothing of the
\* previous corpus remains.
C8_FullReplace ==
  (ret.op = "process_document" /\ ret.val.success)
    => LET file == FileOf(ret.arg)
           chunks == split_into_chunks(clean_text(file.raw), DefaultChunkSize, DefaultOverlap).chunks
           tokens == AllChunksTokens(chunks)
           terms == UNION {Range(tokens[k]) : k \in 1..Len(tokens)}
       IN /\ self.chunks = chunks
          /\ Len(self.tfidf_matrix) = Len(chunks)
          /\ \A k \in 1..Len(chunks) : DOMAIN self.tfidf_matrix[k] = Range(tokens[k])
          /\ self.tfidf_matrix = BuildMatrix(tokens, calculate_idf(tokens))
          /\ DOMAIN self.vocabulary = terms
          /\ DOMAIN self.idf_scores = terms
          /\ self.idf_scores = calculate_idf(tokens)

\* a document with tokens has replaced the corpus of another document
C8_Witness ==
  /\ ret.op = "process_document"
  /\ ret.val.success
  /\ DOMAIN self.idf_scores # {}
  /\ \E name \in DOMAIN heap[self.documents] :
       /\ name # ret.arg
       /\ name \in {f.filename : f \in Files}
       /\ ExtractableTokens(FileOf(name)) # << >>

\* C9: every entry search_similar_chunks returns has similarity > 0.
C9_PositiveSimilarity ==
  ret.op = "search_similar_chunks"
    => \A k \in 1..Len(ret.val) : FLess(Zero, ret.val[k].similarity)

\* a search returned fewer entries than top_k because a chunk had similarity 0
C9_Witness ==
  /\ ret.op = "search_similar_chunks"
  /\ Len(ret.val) >= 1
  /\ Len(ret.val) < ret.arg[2]
  /\ Len(ret.val) < Len(self.chunks)

\* the queries of the model without a token: empty, stop words only, short words only
TokenlessQueries == {<< >>, <<"de", SP, "a", SP, "o">>, <<"ab", SP, "x", "?">>}

\* the words of a query, lower-cased
QueryWords(query) == {LowerAtom(query[i]) : i \in {j \in 1..Len(query) : IsWordAtom(query[j])}}

\* C10: search_similar_chunks returns the empty list when the query has no token,
\* when none of its words is in idf_scores, and when the corpus is empty.
C10_EmptyResult ==
  (ret.op = "search_similar_chunks"
     /\ (\/ ret.arg[1] \in TokenlessQueries
         \/ QueryWords(ret.arg[1]) \cap DOMAIN self.idf_scores = {}
         \/ self.chunks = << >>))
    => ret.val = << >>

\* an out-of-vocabulary query was answered on a corpus of several chunks
C10_Witness ==
  /\ ret.op = "search_similar_chunks"
  /\ ret.arg[1] = <<"xyz">>
  /\ Len(self.chunks) > 1
  /\ DOMAIN self.idf_scores # {}
  /\ ret.val = << >>

\* the similarity of every chunk of the store to a query, computed chunk by chunk
SimilarityOf(me, query) ==
  LET query_tfidf == QueryVector(tokenize(query), me.idf_scores)
  IN [i \in 1..Len(me.tfidf_matrix) |-> cosine_similarity(query_tfidf, me.tfidf_matrix[i])]

\* C11: the list search_similar_chunks returns is ordered by non-increasing
\* similarity, has exactly min(top_k, number of chunks with positive similarity)
\* entries, each entry carries the similarity of its chunk, and no chunk that
\* was left out has a greater similarity than a returned one.
C11_RankedTopK ==
  ret.op = "search_similar_chunks"
    => LET sims == SimilarityOf(self, ret.arg[1])
           top_k == ret.arg[2]
           positive == {i \in 1..Len(sims) : FLess(Zero, sims[i])}
           returned == {ret.val[k].chunk_index + 1 : k \in 1..Len(ret.val)}
       IN /\ Len(ret.val) = Min(top_k, Cardinality(positive))
          /\ Cardinality(returned) = Len(ret.val)
          /\ returned \subseteq positive
          /\ \A k \in 1..Len(ret.val) :
               /\ ret.val[k].similarity = sims[ret.val[k].chunk_index + 1]
               /\ ret.val[k].content = self.chunks[ret.val[k].chunk_index + 1]
          /\ \A k \in 1..(Len(ret.val) - 1) :
               ~FLess(ret.val[k].similarity, ret.val[k + 1].similarity)
          /\ \A i \in positive \ returned, k \in 1..Len(ret.val) :
               ~FLess(ret.val[k].similarity, sims[i])

\* the best hit of a query is not the first chunk, and two chunks with a
\* smaller positive similarity were left out
C11_Witness ==
  /\ ret.op = "search_similar_chunks"
  /\ ret.arg[2] = 1
  /\ Len(ret.val) = 1
  /\ ret.val[1].chunk_index > 0
  /\ \E i \in 1..Len(self.chunks) :
       /\ i < ret.val[1].chunk_index + 1
       /\ FLess(Zero, SimilarityOf(self, ret.arg[1])[i])
       /\ FLess(SimilarityOf(self, ret.arg[1])[i], ret.val[1].similarity)

(***************************************************************************)
(* Properties of the pure methods (SpecPure)                               *)
(***************************************************************************)
\* the positions of the word-character runs of a text
RunsOf(text) == LET IsRun(i) == IsWordAtom(text[i]) IN SelectSeq(Indices(text), IsRun)

\* C12: tokenize returns the lower-cased word-character runs of the text in
\* their order, duplicates retained, minus exactly those of length <= 2 and
\* those in the stop-word set; the result has no token of length <= 2 and no
\* stop word, and is empty for a text without a run or with stop words only.
C12_TokenizeFilters ==
  ret.op = "tokenize"
    => LET text == ret.arg
           Survives(i) == Len(LowerAtom(text[i])) > 2 /\ LowerAtom(text[i]) \notin stop_words
           kept == SelectSeq(RunsOf(text), Survives)
       IN /\ ret.val = [k \in 1..Len(kept) |-> LowerAtom(text[kept[k]])]
          /\ \A k \in 1..Len(ret.val) : Len(ret.val[k]) > 2 /\ ret.val[k] \notin stop_words
          /\ (\A i \in 1..Len(text) : ~IsWordAtom(text[i]) \/ LowerAtom(text[i]) \in stop_words)
               => ret.val = << >>

\* a text with an upper-case run, a stop word and a repeated word gave the
\* repeated word twice
C12_Witness ==
  /\ ret.op = "tokenize"
  /\ Len(ret.val) = 2
  /\ ret.val[1] = ret.val[2]
  /\ \E i \in 1..Len(ret.arg) : IsWordAtom(ret.arg[i]) /\ LowerAtom(ret.arg[i]) # ret.arg[i]
  /\ \E i \in 1..Len(ret.arg) : IsWordAtom(ret.arg[i]) /\ ret.arg[i] \in stop_words

\* the number of chunks of a corpus that contain a token at least once
DocumentFrequency(all_chunks_tokens, token) ==
  Cardinality({k \in 1..Len(all_chunks_tokens) :
                 \E j \in 1..Len(all_chunks_tokens[k]) : all_chunks_tokens[k][j] = token})

\* C13: for a corpus of n >= 1 chunks calculate_idf gives every observed token
\* ln(n / df), where df, the number of chunks that contain the token, is
\* between 1 and n; the value is never negative and is 0 exactly when df = n.
C13_IdfNonNegative ==
  (ret.op = "calculate_idf" /\ Len(ret.arg) >= 1)
    => LET n == Len(ret.arg)
           observed == {ret.arg[k][j] : <<k, j>> \in
                          {p \in (1..n) \X (1..MaxIdfTokens) : p[2] <= Len(ret.arg[p[1]])}}
       IN /\ DOMAIN ret.val = observed
          /\ \A token \in observed :
               LET df == DocumentFrequency(ret.arg, token)
               IN /\ 1 <= df /\ df <= n
                  /\ ret.val[token] = Ln(n, df)
                  /\ ~FLess(ret.val[token], Zero)
                  /\ (ret.val[token] = Zero) <=> (df = n)

\* a corpus of three chunks: one token in every chunk and twice in one of them,
\* another token in one chunk only
C13_Witness ==
  /\ ret.op = "calculate_idf"
  /\ Len(ret.arg) = 3
  /\ \E k \in 1..3 : ret.arg[k] = <<"gato", "gato">>
  /\ DOMAIN ret.val = {"gato", "parque"}
  /\ ret.val["gato"] = Zero
  /\ ret.val["parque"] = Ln(3, 1)

\* C14: cosine_similarity is symmetric: the value a call returns for (A, B) is
\* the value the call with the arguments exchanged returns for (B, A).
C14_CosineSymmetric ==
  ret.op = "cosine_similarity"
    => \A order \in Orders(Terms(ret.arg[1]) \cap Terms(ret.arg[2])) :
         cosine_similarity_float(ret.arg[2], ret.arg[1], order) = ret.val

(***************************************************************************)
(* Properties of the stored vectors (Spec)                                 *)
(***************************************************************************)
\* the similarity 1.0 (whose square is 1)
One == [num |-> 1, den |-> 1]

\* C15: after a successful process_document, every chunk with at least one
\* indexed token, that is with a non-empty stored vector, has cosine
\* similarity exactly 1.0 with itself.
C15_SelfSimilarityOne ==
  (ret.op = "process_document" /\ ret.val.success)
    => \A k \in 1..Len(self.tfidf_matrix) :
         DOMAIN self.tfidf_matrix[k] # {}
           => cosine_similarity(self.tfidf_matrix[k], self.tfidf_matrix[k]) = One

\* the float similarities of the query "gato" to the three chunks of ExtChunks
ExtFloatSimilarities ==
  LET all_chunks_tokens == AllChunksTokens(ExtChunks)
      matrix == tfidf_matrix_float(all_chunks_tokens)
      query_tfidf == query_vector_float(tokenize(<<"gato">>), calculate_idf_float(all_chunks_tokens))
  IN [k \in 1..Len(matrix) |->
        IF Terms(matrix[k]) \cap Terms(query_tfidf) = {} THEN F64Zero
        ELSE cosine_similarity_float(query_tfidf, matrix[k], <<"gato">>)]

\* C17: on the corpus of the three chunks "o gato subiu no telhado", "o cachorro
\* correu no parque", "o gato dormiu no sofa", one chunk per line, the query
\* "gato" ranks the first and the third chunk above the second, and the first
\* and the third have the same similarity, which is not zero.
C17_GatoScenario ==
  (ret.op = "search_similar_chunks" /\ ret.arg[1] = <<"gato">>
     /\ self.chunks = ExtChunks /\ Corpus(self) = Corpus(ExtSnapshot))
    => LET sims == SimilarityOf(self, <<"gato">>)
           returned == {ret.val[k].chunk_index : k \in 1..Len(ret.val)}
       IN /\ sims[1] = sims[3]
          /\ FLess(Zero, sims[1])
          /\ FLess(sims[2], sims[1])
          /\ ExtFloatSimilarities[1] = ExtFloatSimilarities[3]
          /\ F64Less(ExtFloatSimilarities[2], ExtFloatSimilarities[1])
          /\ returned \subseteq {0, 2}
          /\ Cardinality(returned) = Min(ret.arg[2], 2)
          /\ \A k \in 1..Len(ret.val) : ret.val[k].similarity = sims[1]

\* the query "gato" was answered on the three chunks with room for all of them
C17_Witness ==
  /\ ret.op = "search_similar_chunks"
  /\ ret.arg = <<<<"gato">>, 3>>
  /\ self.chunks = ExtChunks
  /\ Len(ret.val) = 2
  /\ ret.val[1].content = ExtChunks[1]
  /\ ret.val[2].content = ExtChunks[3]

\* the files process_document rejects for their name, and those without text
UnsupportedFiles == {f \in Files : LowerExt(f.ext) \notin {".pdf", ".csv"}}
TextlessFiles == {f \in Files : Strip(f.raw) = << >>}

\* C19: a process_document call that fails returns success = False with an
\* error message and the file name, and leaves chunks, tfidf_matrix,
\* vocabulary, idf_scores, document_stats and documents unchanged, so that
\* every query is answered as before the call; files with an unsupported
\* extension and files without extracted text fail.
C19_FailureLeavesCorpus ==
  [][ret'.op = "process_document"
       => /\ FileOf(ret'.arg) \in UnsupportedFiles \cup TextlessFiles
               => ~ret'.val.success
          /\ ~ret'.val.success
               => /\ DOMAIN ret'.val = {"success", "error", "filename"}
                  /\ ret'.val.error # "none"
                  /\ ret'.val.filename = ret'.arg
                  /\ Deref(self', heap') = Deref(self, heap)
                  /\ self' = self
                  /\ \A query \in Queries, top_k \in TopKs :
                       search_similar_chunks(self', query, top_k)
                         = search_similar_chunks(self, query, top_k)]_vars

\* a file with an unsupported extension was rejected while a corpus of several
\* chunks was loaded, and the corpus still answers
C19_Witness ==
  /\ ret.op = "process_document"
  /\ ret.arg = "notas.txt"
  /\ ~ret.val.success
  /\ Len(self.chunks) > 1
  /\ search_similar_chunks(self, <<"gato">>, 3) # << >>

(***************************************************************************)
(* Properties of the statistics (SpecStats)                                *)
(***************************************************************************)
\* C20: in every state reached by process_document, clear_data, export_data
\* and import_data of an exported snapshot, document_stats.total_chunks is
\* len(chunks) and document_stats.vocabulary_size is len(vocabulary).
C20_StatsMatchStore ==
  /\ heap[self.document_stats].total_chunks = Len(self.chunks)
  /\ heap[self.document_stats].vocabulary_size = Cardinality(DOMAIN self.vocabulary)

\* C21: search_similar_chunks is deterministic: a second call with the same
\* query and top_k in the state the first call left returns the same list;
\* entries with equal similarity are in ascending chunk_index order, and a
\* chunk left out that ties with a returned one has a greater index.
C21_DeterministicTies ==
  ret.op = "search_similar_chunks"
    => LET sims == SimilarityOf(self, ret.arg[1])
           returned == {ret.val[k].chunk_index + 1 : k \in 1..Len(ret.val)}
           positive == {i \in 1..Len(sims) : FLess(Zero, sims[i])}
       IN /\ search_similar_chunks(self, ret.arg[1], ret.arg[2]) = ret.val
          /\ \A k \in 1..(Len(ret.val) - 1) :
               ret.val[k].similarity = ret.val[k + 1].similarity
                 => ret.val[k].chunk_index < ret.val[k + 1].chunk_index
          /\ \A i \in positive \ returned, k \in 1..Len(ret.val) :
               sims[i] = ret.val[k].similarity => i - 1 > ret.val[k].chunk_index

\* top_k = 1 cut a tie: the first chunk was returned and a later chunk with
\* the same similarity was left out
C21_Witness ==
  /\ ret.op = "search_similar_chunks"
  /\ ret.arg[2] = 1
  /\ Len(ret.val) = 1
  /\ \E i \in 1..Len(self.tfidf_matrix) :
       /\ i - 1 > ret.val[1].chunk_index
       /\ SimilarityOf(self, ret.arg[1])[i] = ret.val[1].similarity

\* C22: in every stored vector and in every query vector the keys are tokens
\* of the owning text (the chunk, the query) and no key has the weight 0.
C22_NoZeroWeights ==
  /\ Len(self.tfidf_matrix) = Len(self.chunks)
       => \A k \in 1..Len(self.chunks) :
            /\ DOMAIN self.tfidf_matrix[k] \subseteq Range(tokenize(self.chunks[k]))
            /\ \A token \in DOMAIN self.tfidf_matrix[k] : self.tfidf_matrix[k][token] # Zero
  /\ \A query \in Queries :
       LET query_tfidf == QueryVector(tokenize(query), self.idf_scores)
       IN /\ DOMAIN query_tfidf \subseteq Range(tokenize(query))
          /\ \A token \in DOMAIN query_tfidf : query_tfidf[token] # Zero

\* the tokens that occur in at least one chunk of the store
CorpusTokens(me) == UNION {Range(tokenize(me.chunks[k])) : k \in 1..Len(me.chunks)}

\* C23: the keys of idf_scores are the keys of vocabulary and are the tokens
\* that occur in at least one chunk of the corpus, and vocabulary maps them
\* one-to-one onto 0 .. len(vocabulary) - 1.
C23_VocabularyMatchesCorpus ==
  /\ DOMAIN self.idf_scores = DOMAIN self.vocabulary
  /\ DOMAIN self.vocabulary = CorpusTokens(self)
  /\ {self.vocabulary[token] : token \in DOMAIN self.vocabulary}
       = 0..(Cardinality(DOMAIN self.vocabulary) - 1)
  /\ \A t1, t2 \in DOMAIN self.vocabulary :
       self.vocabulary[t1] = self.vocabulary[t2] => t1 = t2

\* a document of several tokens has replaced the corpus of another document
C23_Witness ==
  /\ ret.op = "process_document"
  /\ ret.val.success
  /\ Cardinality(DOMAIN self.vocabulary) >= 3
  /\ Cardinality(DOMAIN heap[self.documents]) >= 2

(***************************************************************************)
(* Properties of clean_text (SpecPure)                                     *)
(***************************************************************************)
\* C24: clean_text drops every line of its input whose trimmed length is at
\* most 10 characters and keeps every longer line: no word of a short line is
\* in the output, every word of a longer line is.
C24_ShortLinesDropped ==
  ret.op = "clean_text"
    => LET lines == SplitOn(ret.arg, NL)
           kept == Range(Words(ret.val))
       IN \A k \in 1..Len(lines) :
            IF CharLen(Strip(lines[k])) <= MinLineLen
            THEN Range(Words(lines[k])) \cap kept = {}
            ELSE Range(Words(lines[k])) \subseteq kept

\* C28: when the corpus is exactly one chunk, as it is after every successful
\* process_document of a text of at most 500 words, every IDF is 0, every
\* stored weight is 0 and search_similar_chunks returns the empty list for
\* every query, also for a query made of tokens of the chunk.
C28_SingleChunkFindsNothing ==
  /\ (ret.op = "process_document" /\ ret.val.success
        /\ Len(Words(clean_text(FileOf(ret.arg).raw))) <= DefaultChunkSize)
       => Len(self.chunks) = 1
  /\ Len(self.chunks) = 1
       => /\ \A token \in DOMAIN self.idf_scores : self.idf_scores[token] = Zero
          /\ Len(self.tfidf_matrix) = 1
          /\ \A token \in DOMAIN self.tfidf_matrix[1] : self.tfidf_matrix[1][token] = Zero
          /\ \A query \in Queries, top_k \in TopKs :
               search_similar_chunks(self, query, top_k) = << >>
          /\ ret.op = "search_similar_chunks" => ret.val = << >>

\* the query 'gato' found nothing in the one chunk that contains gato
C28_Witness ==
  /\ ret.op = "search_similar_chunks"
  /\ ret.arg = <<<<"gato">>, 3>>
  /\ Len(self.chunks) = 1
  /\ "gato" \in Range(tokenize(self.chunks[1]))
  /\ "gato" \in DOMAIN self.tfidf_matrix[1]
  /\ ret.val = << >>

(***************************************************************************)
(* Properties of the store (Spec)                                          *)
(***************************************************************************)
\* C26: search_similar_chunks changes nothing: chunks, tfidf_matrix,
\* vocabulary, idf_scores, document_stats and documents are the same before
\* and after the call, for every query and top_k, and every similarity it
\* returns is computed with the query vector built from the idf_scores of the
\* corpus.
C26_SearchChangesNothing ==
  [][ret'.op = "search_similar_chunks"
       => /\ self' = self
          /\ heap' = heap
          /\ Deref(self', heap') = Deref(self, heap)
          /\ snap' = snap
          /\ \A k \in 1..Len(ret'.val) :
               ret'.val[k].similarity
                 = SimilarityOf(self, ret'.arg[1])[ret'.val[k].chunk_index + 1]]_vars

\* a query with a token outside the vocabulary was answered with a hit, and
\* the token is still outside the IDF table
C26_Witness ==
  /\ ret.op = "search_similar_chunks"
  /\ ret.arg[1] = <<"gato", SP, "xyz">>
  /\ Len(ret.val) >= 1
  /\ "gato" \in DOMAIN self.idf_scores
  /\ "xyz" \notin DOMAIN self.idf_scores

(***************************************************************************)
(* Properties of the store with whole snapshots (SpecWhole)                *)
(***************************************************************************)
\* C27: tfidf_matrix and chunks have the same length and vector k is the
\* vector of chunk k; every entry of a search result has
\* 0 <= chunk_index < len(chunks) and its content is chunks[chunk_index].
C27_MatrixAlignedWithChunks ==
  /\ Len(self.tfidf_matrix) = Len(self.chunks)
  /\ self.tfidf_matrix = BuildMatrix(AllChunksTokens(self.chunks), self.idf_scores)
  /\ ret.op = "search_similar_chunks"
       => \A k \in 1..Len(ret.val) :
            /\ 0 <= ret.val[k].chunk_index
            /\ ret.val[k].chunk_index < Len(self.chunks)
            /\ ret.val[k].content = self.chunks[ret.val[k].chunk_index + 1]

\* the third chunk was found after the three-chunk corpus had been exported,
\* replaced by a document and imported again
C27_Witness ==
  /\ ret.op = "search_similar_chunks"
  /\ \E k \in 1..Len(ret.val) : ret.val[k].chunk_index = 2
  /\ self.chunks = ExtChunks
  /\ DOMAIN snap # {}
  /\ snap.chunks = self.chunks
  /\ "gato.pdf" \in DOMAIN heap[self.documents]

(***************************************************************************)
(* Properties of get_document_processor (SpecGlobal)                       *)
(***************************************************************************)
\* C29: get_document_processor returns the same instance on every call and
\* at most one DocumentProcessorOnline is ever created, also when the first
\* calls of two threads interleave between the test and the assignment.
C29_OneProcessor ==
  /\ Cardinality(instances) <= 1
  /\ Cardinality(UNION {gdp[t].got : t \in Threads}) <= 1

(***************************************************************************)
(* Properties of the registry and the document counter (Spec)              *)
(***************************************************************************)
\* C30: document_stats.total_documents is 0 when no document has been
\* processed successfully since the last clear_data and 1 otherwise, however
\* many filenames have been processed; a successful process_document adds or
\* overwrites the entry of its filename in documents and keeps every other
\* entry, a failing one changes neither, and clear_data empties the registry.
C30_CounterAndRegistry ==
  [][LET docs == heap[self.documents]
         docs2 == heap'[self'.documents]
         stats == heap[self.document_stats]
         stats2 == heap'[self'.document_stats]
     IN /\ stats2.total_documents \in {0, 1}
        /\ stats2.total_documents = 0 <=> DOMAIN docs2 = {}
        /\ (ret'.op = "process_document" /\ ret'.val.success)
             => /\ stats2.total_documents = 1
                /\ DOMAIN docs2 = DOMAIN docs \cup {ret'.arg}
                /\ docs2[ret'.arg].filename = ret'.arg
                /\ docs2[ret'.arg].chunk_count = Len(self'.chunks)
                /\ \A name \in DOMAIN docs \ {ret'.arg} : docs2[name] = docs[name]
        /\ (ret'.op = "process_document" /\ ~ret'.val.success)
             => (stats2 = stats /\ docs2 = docs)
        /\ ret'.op = "clear_data"
             => (stats2.total_documents = 0 /\ docs2 = << >>)]_vars

\* three different files have been processed since the last clear_data and
\* the counter is 1
C30_Witness ==
  /\ ret.op = "process_document"
  /\ ret.val.success
  /\ heap[self.document_stats].total_documents = 1
  /\ Cardinality(DOMAIN heap[self.documents]) >= 3
  /\ DOMAIN heap[self.documents] \subseteq {f.filename : f \in Files}

====
